---------------------------- MODULE Spec2Model ----------------------------
(***************************************************************************)
(* Verification model of the intraday trading decision engine:             *)
(*   - OrderExecutor      (src/trading_bot/execution.py)                   *)
(*   - ExitManager        (src/trading_bot/exit_manager.py)                *)
(*   - DailyRiskState     (src/trading_bot/risk_management.py)             *)
(*   - IntradayTradingBot (src/trading_bot/bot.py)                         *)
(*   - BacktestEngine     (src/trading_bot/backtest.py)                    *)
(* Prices, quantities and PnL are integers (one unit = one price tick);    *)
(* times of day are minutes after midnight.                                *)
(***************************************************************************)
EXTENDS Integers, Sequences, FiniteSets, TLC

VARIABLES
    api_failures,     \* OrderExecutor.api_failures
    kill_switch,      \* OrderExecutor.kill_switch
    orders,           \* MockExecutor.orders
    open_positions,   \* the owner's dict symbol -> OpenPosition, in insertion order
    risk,             \* DailyRiskState
    trades_history,   \* BacktestEngine.trades_history
    last_date,        \* BacktestEngine.run: last_date
    now,              \* the timestamp being processed: [day, tod]
    pc,               \* where the run() loop of the bot or of the backtest stands
    obs               \* what the last operation returned and did (its return
                      \* value, the broker calls and the orders it made)

vars == <<api_failures, kill_switch, orders, open_positions, risk,
          trades_history, last_date, now, pc, obs>>

executor_vars == <<api_failures, kill_switch>>
engine_vars == <<orders, open_positions, risk, trades_history, last_date, now, pc>>

-----------------------------------------------------------------------------
(* Bounds of the model *)

\* api_failures is an unbounded counter: operations are offered while it is below
MaxFailures == 4

\* largest quantity of an order or of a position
MaxQty == 3

\* The engine's capital and cfg.max_trade_capital in price ticks (the program's
\* defaults are 100000.0 and 5000.0 with prices near 100; here prices are near 3).
capital == 300
max_trade_capital == 9

\* largest absolute PnL of one exit registered by a client of DailyRiskState, and
\* the range its accumulated realized_pnl is followed over
MaxExitPnl == 4
MaxRealized == 8

\* trades a client of DailyRiskState registers before it resets
MaxTrades == 3

\* number of calendar dates of a backtest timeline, and of its timestamps
MaxDays == 2
MaxBars == 2

-----------------------------------------------------------------------------
(* TradingConfig (src/trading_bot/config.py); the dataclass is frozen *)

max_order_retries == 1
kill_switch_api_failures == 2
max_trades_per_stock_per_day == 1
max_total_trades_per_day == 2
\* risk_per_trade_pct = 0.01 and daily_max_loss_pct = 0.02, in hundredths
risk_per_trade_pct_x100 == 1
daily_max_loss_pct_x100 == 2

scan_start == 9 * 60 + 20
last_entry == 11 * 60 + 30
force_exit == 15 * 60 + 20
\* the fixed pre-close checkpoint time(15, 0) of ExitManager.manage_exit
eod_checkpoint == 15 * 60

-----------------------------------------------------------------------------
(* Python values *)

\* return values are tuples, so that None, an exception and an order id compare
None == <<"None">>
TypeError == <<"TypeError">>
NoArg == "-"
\* a date is a day number 1, 2, ...; last_date = None is day number NoDate
NoDate == 0
NoTime == [day |-> NoDate, tod |-> NoDate]
NoObs == [op |-> "init"]

-----------------------------------------------------------------------------
(* OrderExecutor: the state is the pair (api_failures, kill_switch) *)

Executor == [api_failures |-> api_failures, kill_switch |-> kill_switch]

\* the order id the broker returns for the successful attempt number `attempt`
\* (0-based) of one call
BrokerOrderId(attempt) == <<"order", attempt>>

\* mutant: the threshold comparison is strict
record_failure_strict(ex) ==
    LET n == ex.api_failures + 1
    IN  [api_failures |-> n,
         kill_switch  |-> IF n > kill_switch_api_failures THEN TRUE ELSE ex.kill_switch]

\* OrderExecutor._record_failure
record_failure(ex) ==
    LET n == ex.api_failures + 1
    IN  [api_failures |-> n,
         kill_switch  |-> IF n >= kill_switch_api_failures THEN TRUE ELSE ex.kill_switch]

\* One broker call kite.place_order, as the executor's bookkeeping sees it: the
\* value of kill_switch when the call was made and whether the broker accepted.
\* kite.TRANSACTION_TYPE_BUY / _SELL as place_entry and place_exit choose them
EntryTransaction(side) == IF side = "BUY" THEN "BUY" ELSE "SELL"
ExitTransaction(side) == IF side = "BUY" THEN "SELL" ELSE "BUY"

BrokerCall(ex, ok, order) ==
    [ks |-> ex.kill_switch, ok |-> ok,
     transaction_type |-> order.transaction_type, quantity |-> order.quantity]

\* the for loop of place_entry from iteration `attempt` on; outcomes[k+1] tells
\* whether the broker accepts attempt k
RECURSIVE entry_attempts(_, _, _, _, _)
entry_attempts(ex, order, attempt, outcomes, calls) ==
    IF attempt >= max_order_retries + 1
    THEN [ex |-> ex, result |-> None, calls |-> calls]
    ELSE LET made == Append(calls, BrokerCall(ex, outcomes[attempt + 1], order))
         IN  IF outcomes[attempt + 1]
             THEN [ex |-> ex, result |-> BrokerOrderId(attempt), calls |-> made]
             ELSE LET failed == record_failure(ex)
                  IN  IF attempt >= max_order_retries
                      THEN [ex |-> failed, result |-> None, calls |-> made]
                      ELSE entry_attempts(failed, order, attempt + 1, outcomes, made)

\* mutant: no kill-switch guard at the head of place_entry
place_entry_unguarded(ex, side, qty, outcomes) ==
    entry_attempts(ex, [transaction_type |-> EntryTransaction(side), quantity |-> qty],
                   0, outcomes, <<>>)

\* OrderExecutor.place_entry(signal, qty); side is signal.side
place_entry(ex, side, qty, outcomes) ==
    IF ex.kill_switch
    THEN [ex |-> ex, result |-> None, calls |-> <<>>]
    ELSE entry_attempts(ex, [transaction_type |-> EntryTransaction(side), quantity |-> qty],
                        0, outcomes, <<>>)

\* mutant: place_exit retries once after a failure
place_exit_retry(ex, position, extra_args, ok) ==
    LET order == [transaction_type |-> ExitTransaction(position.side),
                  quantity |-> position.quantity]
    IN  IF extra_args
        THEN [ex |-> ex, result |-> TypeError, calls |-> <<>>]
        ELSE IF ex.kill_switch
        THEN [ex |-> ex, result |-> None, calls |-> <<>>]
        ELSE IF ok
        THEN [ex |-> ex, result |-> BrokerOrderId(0),
              calls |-> <<BrokerCall(ex, TRUE, order)>>]
        ELSE [ex |-> record_failure(record_failure(ex)), result |-> None,
              calls |-> <<BrokerCall(ex, FALSE, order),
                          BrokerCall(record_failure(ex), FALSE, order)>>]

\* OrderExecutor.place_exit(position, reason).  extra_args: the caller passes an
\* exit price or qty, which the signature does not accept: Python raises
\* TypeError before the body runs.  The order is for position.quantity.
place_exit(ex, position, extra_args, ok) ==
    LET order == [transaction_type |-> ExitTransaction(position.side),
                  quantity |-> position.quantity]
    IN  IF extra_args
        THEN [ex |-> ex, result |-> TypeError, calls |-> <<>>]
        ELSE IF ex.kill_switch
        THEN [ex |-> ex, result |-> None, calls |-> <<>>]
        ELSE IF ok
        THEN [ex |-> ex, result |-> BrokerOrderId(0),
              calls |-> <<BrokerCall(ex, TRUE, order)>>]
        ELSE [ex |-> record_failure(ex), result |-> None,
              calls |-> <<BrokerCall(ex, FALSE, order)>>]

-----------------------------------------------------------------------------
(* Values of the variables a specification does not use *)

EmptyDict == [k \in {} |-> None]

NewRiskState == [realized_pnl |-> 0, total_trades |-> 0, symbol_trade_count |-> EmptyDict]

Idle ==
    /\ orders = <<>>
    /\ open_positions = <<>>
    /\ risk = NewRiskState
    /\ trades_history = <<>>
    /\ last_date = NoDate
    /\ now = NoTime
    /\ pc = NoArg

-----------------------------------------------------------------------------
(* Positions and bars *)

Symbols == {"INFY", "TCS", "SBIN"}

\* the python dict symbol_trade_count, which is never iterated
DictSet(d, k, v) == [x \in DOMAIN d \cup {k} |-> IF x = k THEN v ELSE d[x]]
DictGet(d, k, default) == IF k \in DOMAIN d THEN d[k] ELSE default

\* The python dict open_positions (symbol -> OpenPosition), which is iterated
\* in insertion order: the sequence of its values, each carrying its key.
HasPosition(d, symbol) == \E i \in DOMAIN d : d[i].symbol = symbol
PositionOf(d, symbol) == d[CHOOSE i \in DOMAIN d : d[i].symbol = symbol]
PutPosition(d, position) ==
    IF HasPosition(d, position.symbol)
    THEN [i \in DOMAIN d |-> IF d[i].symbol = position.symbol THEN position ELSE d[i]]
    ELSE Append(d, position)
DelPosition(d, symbol) == SelectSeq(d, LAMBDA position : position.symbol # symbol)

\* a bar's indicator the exit manager finds absent: candle.get(...) gives None,
\* and `not x` also takes 0.0 as absent
Missing == 0

\* Price levels of the model.  A long is entered at EntryPrice with its stop
\* below and its targets above; a short is the mirror image.
EntryPrice == 3
Prices == 1 .. 2 * EntryPrice - 1

Direction(side) == IF side = "BUY" THEN 1 ELSE -1

\* The geometry of a signal: the stop is `dist` ticks against the trade,
\* target_1 one tick in its favour and target_2 (when there is one) two.
SignalLevels(side, dist, has_t2) ==
    [side |-> side, entry |-> EntryPrice,
     stop_loss |-> EntryPrice - Direction(side) * dist,
     target_1 |-> EntryPrice + Direction(side),
     target_2 |-> IF has_t2 THEN EntryPrice + 2 * Direction(side) ELSE Missing]

\* OpenPosition(symbol, side, quantity, setup, entry, stop_loss, target_1,
\* target_2, target_1_hit=False, opened_at); setup is carried nowhere in the
\* decisions and left out
OpenPosition(symbol, lv, qty, t1hit, opened_at) ==
    [symbol |-> symbol, side |-> lv.side, quantity |-> qty, entry |-> lv.entry,
     stop_loss |-> lv.stop_loss, target_1 |-> lv.target_1, target_2 |-> lv.target_2,
     target_1_hit |-> t1hit, opened_at |-> opened_at]

\* The indicator columns of a bar as <<ema9, vwap, ema20>>: all absent, all
\* present with ema9 above or below ema20, vwap alone absent, and ema9 at
\* either end of the price range (beyond a runner's close).
Indicators ==
    { <<Missing, Missing, Missing>>,
      <<EntryPrice, EntryPrice, EntryPrice - 1>>,
      <<EntryPrice, EntryPrice, EntryPrice + 1>>,
      <<EntryPrice, Missing, EntryPrice - 1>>,
      <<2 * EntryPrice - 1, EntryPrice, EntryPrice + 1>>,
      <<1, EntryPrice, EntryPrice - 1>> }

\* The bars a position is managed on: low <= high at most two ticks apart (so
\* that one bar can reach both the stop and target_1), closing at its low or at
\* its high.
WellFormed(c) == c.low <= c.high /\ c.high - c.low <= 2 /\ c.close \in {c.low, c.high}

Candles ==
    { c \in { [low |-> l, high |-> h, close |-> cl,
               ema9 |-> ind[1], vwap |-> ind[2], ema20 |-> ind[3]] :
                 l \in Prices, h \in Prices, cl \in Prices, ind \in Indicators } :
        WellFormed(c) }

\* The bars the bot and the backtest engine meet, as offsets <<low, high, close>>
\* from EntryPrice: a quiet bar, bars one tick and two ticks to either side, and
\* bars wholly above or below the entry.
BarShapes ==
    { <<0, 0, 0>>, <<0, 1, 1>>, <<-1, 0, -1>>, <<0, 2, 2>>, <<-2, 0, -2>>,
      <<1, 1, 1>>, <<-1, -1, -1>> }

BarIndicators ==
    { <<EntryPrice, EntryPrice, EntryPrice - 1>>,
      <<2 * EntryPrice - 1, EntryPrice, EntryPrice + 1>>,
      <<1, EntryPrice, EntryPrice - 1>> }

Bars ==
    { c \in Candles :
        /\ <<c.low - EntryPrice, c.high - EntryPrice, c.close - EntryPrice>> \in BarShapes
        /\ <<c.ema9, c.vwap, c.ema20>> \in BarIndicators }

\* the row of a symbol that has no bar
NoBar == [low |-> Missing, high |-> Missing, close |-> Missing,
          ema9 |-> Missing, vwap |-> Missing, ema20 |-> Missing]

-----------------------------------------------------------------------------
(* DailyRiskState and position_size (src/trading_bot/risk_management.py) *)

\* DailyRiskState(capital, max_daily_loss_pct): the mutable fields are
\* realized_pnl, total_trades and symbol_trade_count; capital and
\* max_daily_loss_pct are those of the engine.
\* realized_pnl <= -max_daily_loss_amount(), with max_daily_loss_amount() =
\* capital * max_daily_loss_pct, compared in hundredths of a tick
loss_limit_reached(r) ==
    r.realized_pnl * 100 <= -(capital * daily_max_loss_pct_x100)

\* mutant: the loss limit is compared strictly
can_trade_strict(r, symbol, max_trades_total, max_trades_per_stock) ==
    [risk |-> r,
     result |-> IF r.realized_pnl * 100 < -(capital * daily_max_loss_pct_x100)
                THEN FALSE
                ELSE IF r.total_trades >= max_trades_total
                THEN FALSE
                ELSE IF DictGet(r.symbol_trade_count, symbol, 0) >= max_trades_per_stock
                THEN FALSE
                ELSE TRUE]

\* DailyRiskState.can_trade: the value returned and the state it leaves
can_trade(r, symbol, max_trades_total, max_trades_per_stock) ==
    [risk |-> r,
     result |-> IF loss_limit_reached(r)
                THEN FALSE
                ELSE IF r.total_trades >= max_trades_total
                THEN FALSE
                ELSE IF DictGet(r.symbol_trade_count, symbol, 0) >= max_trades_per_stock
                THEN FALSE
                ELSE TRUE]

\* mutant: the per-symbol count is not kept
register_trade_total_only(r, symbol) ==
    [r EXCEPT !.total_trades = @ + 1]

\* DailyRiskState.register_trade
register_trade(r, symbol) ==
    [r EXCEPT !.total_trades = @ + 1,
              !.symbol_trade_count = DictSet(@, symbol, DictGet(@, symbol, 0) + 1)]

\* mutant: only a loss moves the accumulator
register_exit_losses_only(r, pnl) ==
    IF pnl < 0 THEN [r EXCEPT !.realized_pnl = @ + pnl] ELSE r

\* DailyRiskState.register_exit
register_exit(r, pnl) == [r EXCEPT !.realized_pnl = @ + pnl]

\* DailyRiskState.reset
reset(r) ==
    [r EXCEPT !.realized_pnl = 0, !.total_trades = 0, !.symbol_trade_count = EmptyDict]

\* the value a call returns, and a call that raises ZeroDivisionError
Returns(value) == [raised |-> FALSE, result |-> value]

ZeroDivisionError == [raised |-> TRUE, result |-> 0]

\* a // b of Python for b # 0: the quotient rounded towards minus infinity
FloorDiv(a, b) == IF b > 0 THEN a \div b ELSE (-a) \div (-b)

\* mutant: the quantity is not capped by max_trade_capital
position_size_uncapped(cap, max_cap, risk_pct_x100, entry, stop_loss) ==
    LET sl_distance == IF entry >= stop_loss THEN entry - stop_loss ELSE stop_loss - entry
    IN  IF sl_distance <= 0
        THEN Returns(0)
        ELSE IF entry = 0
        THEN ZeroDivisionError
        ELSE LET qty_risk == FloorDiv(cap * risk_pct_x100, 100 * sl_distance)
             IN  Returns(IF qty_risk >= 0 THEN qty_risk ELSE 0)

\* mutant: the risk amount is multiplied by the stop distance
position_size_by_distance(cap, max_cap, risk_pct_x100, entry, stop_loss) ==
    LET sl_distance == IF entry >= stop_loss THEN entry - stop_loss ELSE stop_loss - entry
    IN  IF sl_distance <= 0
        THEN Returns(0)
        ELSE IF entry = 0
        THEN ZeroDivisionError
        ELSE LET qty_risk == FloorDiv(cap * risk_pct_x100 * sl_distance, 100)
                 qty_capital == FloorDiv(max_cap, entry)
                 least == IF qty_risk <= qty_capital THEN qty_risk ELSE qty_capital
             IN  Returns(IF least >= 0 THEN least ELSE 0)

\* position_size(capital, max_trade_capital, risk_pct, entry, stop_loss);
\* risk_pct is given in hundredths.  The call returns a quantity, or raises
\* ZeroDivisionError when max_trade_capital // entry divides by zero.
position_size(cap, max_cap, risk_pct_x100, entry, stop_loss) ==
    LET sl_distance == IF entry >= stop_loss THEN entry - stop_loss ELSE stop_loss - entry
    IN  IF sl_distance <= 0
        THEN Returns(0)
        ELSE IF entry = 0
        THEN ZeroDivisionError
        ELSE LET qty_risk == FloorDiv(cap * risk_pct_x100, 100 * sl_distance)
                 qty_capital == FloorDiv(max_cap, entry)
                 least == IF qty_risk <= qty_capital THEN qty_risk ELSE qty_capital
             IN  Returns(IF least >= 0 THEN least ELSE 0)

-----------------------------------------------------------------------------
(* The executor an ExitManager is constructed with *)

\* An executor is OrderExecutor (the live bot), MockExecutor (the backtest) or an
\* injected one that follows the interface place_exit(position, reason, price?,
\* qty?) -> order id or None.  Its state: the OrderExecutor fields and the
\* MockExecutor order list.
ExecutorState(failures, killed, order_list) ==
    [api_failures |-> failures, kill_switch |-> killed, orders |-> order_list]

MockOrderId == <<"mock_order_id">>

\* MockExecutor.place_entry: records the order and always succeeds
mock_place_entry(order_list, signal, qty) ==
    Append(order_list, [type |-> "ENTRY", symbol |-> signal.symbol, reason |-> NoArg,
                        price |-> Missing, qty |-> qty])

\* MockExecutor.place_exit: records the order (the position by reference: its
\* symbol is what is read back) and always succeeds
mock_place_exit(ex, position, reason, price, qty) ==
    [ex |-> [ex EXCEPT !.orders = Append(@, [type |-> "EXIT", symbol |-> position.symbol,
                                             reason |-> reason, price |-> price, qty |-> qty])],
     result |-> MockOrderId]

\* An executor of the interface: accepts price and qty, keeps no state the exit
\* manager reads, and returns what the broker side decides (`input`: TRUE an
\* order id, FALSE None)
injected_place_exit(ex, position, reason, price, qty, input) ==
    [ex |-> ex, result |-> IF input THEN BrokerOrderId(0) ELSE None]

\* self.executor.place_exit(position, reason[, price][, qty=...]) as dispatched
\* on the executor's class.  price and qty are Missing when not passed.
executor_place_exit(kind, ex, position, reason, price, qty, input) ==
    CASE kind = "OrderExecutor" ->
           LET r == place_exit([api_failures |-> ex.api_failures, kill_switch |-> ex.kill_switch],
                               position, price # Missing \/ qty # Missing, input)
           IN  [ex |-> [ex EXCEPT !.api_failures = r.ex.api_failures,
                                  !.kill_switch = r.ex.kill_switch],
                result |-> r.result]
      [] kind = "MockExecutor" -> mock_place_exit(ex, position, reason, price, qty)
      [] OTHER -> injected_place_exit(ex, position, reason, price, qty, input)

\* the record of one place_exit call made by the exit manager
Placed(position, reason, qty, r) ==
    [symbol |-> position.symbol, reason |-> reason, qty |-> qty,
     quantity |-> position.quantity, result |-> r.result]

-----------------------------------------------------------------------------
(* ExitManager (src/trading_bot/exit_manager.py) *)

ForceReason == "force_square_off_1520"
StopReason == "stop_loss_hit"
TrailReason == "ema_9_trailing_stop"
EodReason == "trend_invalidated_at_1500"
PartialReason == "partial_profit_pivot_hit"

\* ExitManager._check_target_1
check_target_1(position, candle) ==
    IF position.side = "BUY"
    THEN candle.high >= position.target_1
    ELSE candle.low <= position.target_1

\* mutant: a bar that only touches the stop does not breach it
check_stop_loss_strict(position, candle) ==
    IF position.side = "BUY"
    THEN candle.low < position.stop_loss
    ELSE candle.high > position.stop_loss

\* ExitManager._check_stop_loss
check_stop_loss(position, candle) ==
    IF position.side = "BUY"
    THEN candle.low <= position.stop_loss
    ELSE candle.high >= position.stop_loss

\* mutant: an absent ema9 is compared like a value
check_trailing_exit_unguarded(position, candle) ==
    IF position.side = "BUY"
    THEN candle.close < candle.ema9
    ELSE candle.close > candle.ema9

\* ExitManager._check_trailing_exit
check_trailing_exit(position, candle) ==
    IF candle.ema9 = Missing
    THEN FALSE
    ELSE IF position.side = "BUY"
         THEN candle.close < candle.ema9
         ELSE candle.close > candle.ema9

\* mutant: a bar with an absent indicator keeps the position
check_eod_exit_lenient(position, candle) ==
    IF candle.vwap = Missing \/ candle.ema9 = Missing \/ candle.ema20 = Missing
    THEN FALSE
    ELSE IF position.side = "BUY"
         THEN ~(candle.close > candle.vwap /\ candle.ema9 > candle.ema20)
         ELSE ~(candle.close < candle.vwap /\ candle.ema9 < candle.ema20)

\* ExitManager._check_eod_exit
check_eod_exit(position, candle) ==
    IF candle.vwap = Missing \/ candle.ema9 = Missing \/ candle.ema20 = Missing
    THEN TRUE
    ELSE IF position.side = "BUY"
         THEN ~(candle.close > candle.vwap /\ candle.ema9 > candle.ema20)
         ELSE ~(candle.close < candle.vwap /\ candle.ema9 < candle.ema20)

\* mutant: the stop stays where the position came with it
execute_partial_exit_keep_stop(kind, ex, position, input) ==
    LET exit_qty == position.quantity \div 2
    IN  IF exit_qty > 0
        THEN LET r == executor_place_exit(kind, ex, position, PartialReason, Missing, exit_qty, input)
                 made == <<Placed(position, PartialReason, exit_qty, r)>>
             IN  IF r.result = TypeError
                 THEN [position |-> position, ex |-> r.ex, raised |-> TRUE, placed |-> made]
                 ELSE [position |-> [position EXCEPT !.quantity = @ - exit_qty,
                                                     !.target_1_hit = TRUE],
                       ex |-> r.ex, raised |-> FALSE, placed |-> made]
        ELSE [position |-> [position EXCEPT !.target_1_hit = TRUE],
              ex |-> ex, raised |-> FALSE, placed |-> <<>>]

\* mutant: half the quantity rounded up
execute_partial_exit_ceil(kind, ex, position, input) ==
    LET exit_qty == (position.quantity + 1) \div 2
        r == executor_place_exit(kind, ex, position, PartialReason, Missing, exit_qty, input)
    IN  [position |-> [position EXCEPT !.quantity = @ - exit_qty,
                                        !.target_1_hit = TRUE,
                                        !.stop_loss = position.entry],
         ex |-> r.ex, raised |-> FALSE,
         placed |-> <<Placed(position, PartialReason, exit_qty, r)>>]

\* ExitManager._execute_partial_exit.  int(quantity / 2) is quantity \div 2 for
\* the non-negative quantities a position has.  The return value of place_exit
\* is not read; an exception it raises leaves the position as it was.
execute_partial_exit(kind, ex, position, input) ==
    LET exit_qty == position.quantity \div 2
    IN  IF exit_qty > 0
        THEN LET r == executor_place_exit(kind, ex, position, PartialReason, Missing, exit_qty, input)
                 made == <<Placed(position, PartialReason, exit_qty, r)>>
             IN  IF r.result = TypeError
                 THEN [position |-> position, ex |-> r.ex, raised |-> TRUE, placed |-> made]
                 ELSE [position |-> [position EXCEPT !.quantity = @ - exit_qty,
                                                     !.target_1_hit = TRUE,
                                                     !.stop_loss = position.entry],
                       ex |-> r.ex, raised |-> FALSE, placed |-> made]
        ELSE [position |-> [position EXCEPT !.target_1_hit = TRUE,
                                            !.stop_loss = position.entry],
              ex |-> ex, raised |-> FALSE, placed |-> <<>>]

\* mutant: the full exit reports whether the order was accepted
full_exit_checked(kind, ex, position, reason, input, placed) ==
    LET r == executor_place_exit(kind, ex, position, reason, Missing, Missing, input)
    IN  [position |-> position, ex |-> r.ex, ret |-> r.result # None, raised |-> FALSE,
         placed |-> Append(placed, Placed(position, reason, Missing, r))]

\* a full exit of manage_exit: self.executor.place_exit(position, reason) and
\* return True, whatever place_exit returned
full_exit(kind, ex, position, reason, input, placed) ==
    LET r == executor_place_exit(kind, ex, position, reason, Missing, Missing, input)
    IN  [position |-> position, ex |-> r.ex, ret |-> TRUE, raised |-> FALSE,
         placed |-> Append(placed, Placed(position, reason, Missing, r))]

\* manage_exit from the stop-loss check on (layers 2 to 4)
exit_layers(kind, ex, position, candle, tod, input, placed) ==
    IF check_stop_loss(position, candle)
    THEN full_exit(kind, ex, position, StopReason, input, placed)
    ELSE IF position.target_1_hit /\ check_trailing_exit(position, candle)
    THEN full_exit(kind, ex, position, TrailReason, input, placed)
    ELSE IF tod >= eod_checkpoint /\ check_eod_exit(position, candle)
    THEN full_exit(kind, ex, position, EodReason, input, placed)
    ELSE [position |-> position, ex |-> ex, ret |-> FALSE, raised |-> FALSE,
          placed |-> placed]

\* mutant: the force-exit cutoff is looked at after the target_1 step
manage_exit_partial_first(kind, ex, position, candle, tod, inputs) ==
    IF ~position.target_1_hit /\ check_target_1(position, candle)
    THEN LET p == execute_partial_exit(kind, ex, position, inputs[1])
         IN  IF tod >= force_exit
             THEN full_exit(kind, p.ex, p.position, ForceReason, inputs[2], p.placed)
             ELSE exit_layers(kind, p.ex, p.position, candle, tod, inputs[2], p.placed)
    ELSE IF tod >= force_exit
    THEN full_exit(kind, ex, position, ForceReason, inputs[2], <<>>)
    ELSE exit_layers(kind, ex, position, candle, tod, inputs[2], <<>>)

\* ExitManager.manage_exit(position, candle, now).  inputs = <<what the broker
\* side does with the partial order, what it does with the full-exit order>>.
\* The result: the position as mutated in place, the executor, the value
\* returned (ret) unless an exception left the call (raised), and the place_exit
\* calls made.
manage_exit(kind, ex, position, candle, tod, inputs) ==
    IF tod >= force_exit
    THEN full_exit(kind, ex, position, ForceReason, inputs[2], <<>>)
    ELSE IF ~position.target_1_hit /\ check_target_1(position, candle)
    THEN LET p == execute_partial_exit(kind, ex, position, inputs[1])
         IN  IF p.raised
             THEN [position |-> p.position, ex |-> p.ex, ret |-> FALSE, raised |-> TRUE,
                   placed |-> p.placed]
             ELSE IF p.position.quantity = 0
             THEN [position |-> p.position, ex |-> p.ex, ret |-> TRUE, raised |-> FALSE,
                   placed |-> p.placed]
             ELSE exit_layers(kind, p.ex, p.position, candle, tod, inputs[2], p.placed)
    ELSE exit_layers(kind, ex, position, candle, tod, inputs[2], <<>>)

\* mark_to_market(position, last_price) of execution.py
mark_to_market(position, last_price) ==
    (last_price - position.entry) * Direction(position.side) * position.quantity

\* mutant: target_1_hit is recomputed from the bar on every call
evaluate_exit_recompute(position, candle, tod) ==
    IF tod >= force_exit
    THEN [position |-> position, exit |-> TRUE, reason |-> ForceReason]
    ELSE IF check_stop_loss(position, candle)
    THEN [position |-> position, exit |-> TRUE, reason |-> "stop_loss"]
    ELSE LET touched == [position EXCEPT !.target_1_hit = check_target_1(position, candle),
                                         !.stop_loss = position.entry]
         IN  [position |-> touched, exit |-> FALSE, reason |-> "hold"]

\* mutant: the target_1 step comes before the stop test
evaluate_exit_target_first(position, candle, tod) ==
    IF tod >= force_exit
    THEN [position |-> position, exit |-> TRUE, reason |-> ForceReason]
    ELSE LET touched == IF ~position.target_1_hit /\ check_target_1(position, candle)
                        THEN [position EXCEPT !.target_1_hit = TRUE,
                                              !.stop_loss = position.entry]
                        ELSE position
             target_2_hit == IF touched.side = "BUY"
                             THEN candle.high >= touched.target_2
                             ELSE candle.low <= touched.target_2
         IN  IF check_stop_loss(touched, candle)
             THEN [position |-> touched, exit |-> TRUE, reason |-> "stop_loss"]
             ELSE IF touched.target_1_hit /\ touched.target_2 # Missing /\ target_2_hit
             THEN [position |-> touched, exit |-> TRUE, reason |-> "target_2"]
             ELSE [position |-> touched, exit |-> FALSE, reason |-> "hold"]

\* evaluate_exit(position, last_candle, now, force_exit_time) of execution.py,
\* called with cfg.force_exit
evaluate_exit(position, candle, tod) ==
    IF tod >= force_exit
    THEN [position |-> position, exit |-> TRUE, reason |-> ForceReason]
    ELSE IF check_stop_loss(position, candle)
    THEN [position |-> position, exit |-> TRUE, reason |-> "stop_loss"]
    ELSE LET touched == IF ~position.target_1_hit /\ check_target_1(position, candle)
                        THEN [position EXCEPT !.target_1_hit = TRUE,
                                              !.stop_loss = position.entry]
                        ELSE position
             target_2_hit == IF touched.side = "BUY"
                             THEN candle.high >= touched.target_2
                             ELSE candle.low <= touched.target_2
         IN  IF touched.target_1_hit /\ touched.target_2 # Missing /\ target_2_hit
             THEN [position |-> touched, exit |-> TRUE, reason |-> "target_2"]
             ELSE [position |-> touched, exit |-> FALSE, reason |-> "hold"]

-----------------------------------------------------------------------------
(* SpecExecutor: an OrderExecutor under any sequence of calls of its methods *)

EntryOutcomes == [1 .. max_order_retries + 1 -> BOOLEAN]
Sides == {"BUY", "SELL"}

InitExecutor ==
    /\ api_failures = 0
    /\ kill_switch = FALSE
    /\ obs = NoObs
    /\ Idle

SetExecutor(r) ==
    /\ api_failures' = r.ex.api_failures
    /\ kill_switch' = r.ex.kill_switch

CallPlaceEntry ==
    /\ api_failures < MaxFailures
    /\ \E outcomes \in EntryOutcomes, side \in Sides, qty \in 1 .. MaxQty :
         LET r == place_entry(Executor, side, qty, outcomes)
         IN  /\ SetExecutor(r)
             /\ obs' = [op |-> "place_entry", side |-> side, qty |-> qty,
                        extra_args |-> FALSE,
                        started_killed |-> kill_switch,
                        before |-> api_failures, outcomes |-> outcomes,
                        result |-> r.result, calls |-> r.calls]
    /\ UNCHANGED engine_vars

CallPlaceExit ==
    /\ api_failures < MaxFailures
    /\ \E ok \in BOOLEAN, extra_args \in BOOLEAN, side \in Sides, qty \in 1 .. MaxQty :
         LET r == place_exit(Executor, [side |-> side, quantity |-> qty], extra_args, ok)
         IN  /\ SetExecutor(r)
             /\ obs' = [op |-> "place_exit", side |-> side, qty |-> qty,
                        extra_args |-> extra_args,
                        started_killed |-> kill_switch,
                        before |-> api_failures, outcomes |-> <<ok>>,
                        result |-> r.result, calls |-> r.calls]
    /\ UNCHANGED engine_vars

CallRecordFailure ==
    /\ api_failures < MaxFailures
    /\ SetExecutor([ex |-> record_failure(Executor)])
    /\ obs' = [op |-> "_record_failure", side |-> NoArg, qty |-> 0,
               extra_args |-> FALSE,
               started_killed |-> kill_switch,
               before |-> api_failures, outcomes |-> <<>>,
               result |-> None, calls |-> <<>>]
    /\ UNCHANGED engine_vars

NextExecutor ==
    \/ CallPlaceEntry
    \/ CallPlaceExit
    \/ CallRecordFailure

SpecExecutor == InitExecutor /\ [][NextExecutor]_vars

-----------------------------------------------------------------------------
(* SpecExit: an ExitManager constructed with an executor of the interface,   *)
(* and evaluate_exit, called by a client on a position it holds              *)

UnitSymbol == "INFY"

\* the times of day a client calls at: mid-session, the 15:00 checkpoint and
\* the force-exit cutoff
UnitTimes == {10 * 60, eod_checkpoint, force_exit}

\* stop distances of the positions a client constructs
StopDistances == {1}

\* the calls a client makes on the position it holds
UnitCalls == {"manage_exit", "evaluate_exit"}

InitExit ==
    /\ api_failures = 0
    /\ kill_switch = FALSE
    /\ obs = NoObs
    /\ Idle

\* OpenPosition(...): target_1_hit defaults to False and may be passed as True
Construct ==
    /\ open_positions = <<>>
    /\ \E side \in Sides, dist \in StopDistances, has_t2 \in BOOLEAN,
          qty \in 1 .. MaxQty, t1hit \in BOOLEAN :
         /\ open_positions' = PutPosition(open_positions,
                OpenPosition(UnitSymbol, SignalLevels(side, dist, has_t2), qty,
                             t1hit, NoTime))
         /\ \* a runner (target_1_hit passed as True) has its stop at entry
            t1hit => dist = 1
    /\ obs' = [op |-> "OpenPosition"]
    /\ UNCHANGED <<executor_vars, orders, risk, trades_history, last_date, now, pc>>

CallManageExit ==
    /\ HasPosition(open_positions, UnitSymbol)
    /\ obs.op \notin UnitCalls
    /\ \E candle \in Candles, tod \in UnitTimes, inputs \in BOOLEAN \X BOOLEAN :
         /\ LET r == manage_exit("Injected", ExecutorState(api_failures, kill_switch, orders),
                                 PositionOf(open_positions, UnitSymbol), candle, tod, inputs)
            IN  /\ open_positions' = PutPosition(open_positions, r.position)
                /\ obs' = [op |-> "manage_exit", ret |-> r.ret, raised |-> r.raised,
                           hit_before |-> PositionOf(open_positions, UnitSymbol).target_1_hit,
                           reason |-> NoArg, placed |-> r.placed,
                           before |-> PositionOf(open_positions, UnitSymbol),
                           candle |-> candle, tod |-> tod]
    /\ UNCHANGED <<executor_vars, orders, risk, trades_history, last_date, now, pc>>

CallEvaluateExit ==
    /\ HasPosition(open_positions, UnitSymbol)
    /\ obs.op \notin UnitCalls
    /\ \E candle \in Candles, tod \in UnitTimes :
         /\ LET r == evaluate_exit(PositionOf(open_positions, UnitSymbol), candle, tod)
            IN  /\ open_positions' = PutPosition(open_positions, r.position)
                /\ obs' = [op |-> "evaluate_exit", ret |-> r.exit, raised |-> FALSE,
                           hit_before |-> PositionOf(open_positions, UnitSymbol).target_1_hit,
                           reason |-> r.reason, placed |-> <<>>,
                           before |-> PositionOf(open_positions, UnitSymbol),
                           candle |-> candle, tod |-> tod]
    /\ UNCHANGED <<executor_vars, orders, risk, trades_history, last_date, now, pc>>

\* the call has returned: its arguments and its result go out of scope, the
\* position stays as the call left it
Return ==
    /\ obs.op \in UnitCalls
    /\ obs' = [op |-> "returned"]
    /\ UNCHANGED <<executor_vars, orders, open_positions, risk, trades_history,
                   last_date, now, pc>>

\* the client lets go of the position
Discard ==
    /\ HasPosition(open_positions, UnitSymbol)
    /\ open_positions' = DelPosition(open_positions, UnitSymbol)
    /\ obs' = [op |-> "discard"]
    /\ UNCHANGED <<executor_vars, orders, risk, trades_history, last_date, now, pc>>

NextExit ==
    \/ Construct
    \/ CallManageExit
    \/ CallEvaluateExit
    \/ Return
    \/ Discard

SpecExit == InitExit /\ [][NextExit]_vars

-----------------------------------------------------------------------------
(* SpecRisk: a DailyRiskState under any sequence of calls of its methods *)

\* the limits a client passes to can_trade
TradeLimits == 1 .. max_total_trades_per_day

InitRisk ==
    /\ api_failures = 0
    /\ kill_switch = FALSE
    /\ obs = NoObs
    /\ Idle

CallCanTrade ==
    /\ \E symbol \in Symbols, max_total \in TradeLimits, max_per_stock \in TradeLimits :
         LET r == can_trade(risk, symbol, max_total, max_per_stock)
         IN  /\ risk' = r.risk
             /\ obs' = [op |-> "can_trade", symbol |-> symbol, max_total |-> max_total,
                        max_per_stock |-> max_per_stock, result |-> r.result]
    /\ UNCHANGED <<executor_vars, orders, open_positions, trades_history, last_date, now, pc>>

CallRegisterTrade ==
    /\ risk.total_trades < MaxTrades
    /\ \E symbol \in Symbols :
         /\ risk' = register_trade(risk, symbol)
         /\ obs' = [op |-> "register_trade", symbol |-> symbol]
    /\ UNCHANGED <<executor_vars, orders, open_positions, trades_history, last_date, now, pc>>

CallRegisterExit ==
    /\ \E pnl \in {-MaxExitPnl, -1, 1, MaxExitPnl} :
         /\ risk.realized_pnl + pnl \in -MaxRealized .. MaxRealized
         /\ risk' = register_exit(risk, pnl)
         /\ obs' = [op |-> "register_exit", pnl |-> pnl]
    /\ UNCHANGED <<executor_vars, orders, open_positions, trades_history, last_date, now, pc>>

CallReset ==
    /\ risk' = reset(risk)
    /\ obs' = [op |-> "reset"]
    /\ UNCHANGED <<executor_vars, orders, open_positions, trades_history, last_date, now, pc>>

NextRisk ==
    \/ CallCanTrade
    \/ CallRegisterTrade
    \/ CallRegisterExit
    \/ CallReset

SpecRisk == InitRisk /\ [][NextRisk]_vars

-----------------------------------------------------------------------------
(* Specification of the calls of position_size *)

\* the arguments of the scenario position_size(100000, 5000, 0.01, 100.0, 99.0)
SizeScenario ==
    [capital |-> 100000, max_trade_capital |-> 5000, risk_pct_x100 |-> 1,
     entry |-> 100, stop_loss |-> 99]

\* the arguments position_size is called with: capitals and caps up to those of
\* the configuration, entries around zero and stops on the price grid
SizeArguments ==
    [capital : {0, capital \div 3, capital},
     max_trade_capital : {0, max_trade_capital, 2 * max_trade_capital},
     risk_pct_x100 : {risk_per_trade_pct_x100},
     entry : -1 .. 2 * EntryPrice - 1,
     stop_loss : 0 .. 2 * EntryPrice] \cup {SizeScenario}

InitSize ==
    /\ api_failures = 0
    /\ kill_switch = FALSE
    /\ obs = NoObs
    /\ Idle

\* one call position_size(...) with the value it returns or the exception it
\* raises
CallPositionSize ==
    \E a \in SizeArguments :
        LET r == position_size(a.capital, a.max_trade_capital, a.risk_pct_x100,
                               a.entry, a.stop_loss)
        IN  /\ obs' = [op |-> "position_size", args |-> a,
                       raised |-> r.raised, result |-> r.result]
            /\ UNCHANGED <<api_failures, kill_switch, orders, open_positions, risk,
                           trades_history, last_date, now, pc>>

NextSize == CallPositionSize

SpecSize == InitSize /\ [][NextSize]_vars

-----------------------------------------------------------------------------
(* SpecLive: IntradayTradingBot (src/trading_bot/bot.py) over OrderExecutor. *)
(* The candidate collection of _scan_and_trade is unreachable in this        *)
(* revision (it follows a `continue`), so the scan opens no position: the    *)
(* positions the bot manages are those placed in open_positions by its owner *)
(* before run().                                                             *)

\* runtime.symbols, in list order
LiveSymbols == <<"INFY", "TCS">>

\* datetime.now(IST).time() at an iteration of run(): before scan_start, in the
\* entry window, at the 15:00 checkpoint (past last_entry) and at force_exit
LiveTimes == {scan_start - 5, 10 * 60, eod_checkpoint, force_exit}

\* the narrow bars in an up-trend
LiveBars == { c \in Bars : c.ema9 = EntryPrice /\ c.high - c.low <= 1 }

\* self.data.fetch_5m_intraday(symbol, now) for an open position: it raises,
\* returns an empty frame, or a frame whose last row is `bar`; ok: whether the
\* broker accepts the exit order
ManageInputs ==
    { [kind |-> "raise", bar |-> NoBar, ok |-> FALSE],
      [kind |-> "empty", bar |-> NoBar, ok |-> FALSE] }
    \cup [kind : {"bar"}, bar : LiveBars, ok : BOOLEAN]

\* the body of the symbol loop of _scan_and_trade for one symbol: a fetch that
\* raises is recorded as a failure, and nothing becomes a candidate
scan_symbol(symbol, ex, r, open, fetch_raises) ==
    IF HasPosition(open, symbol)
    THEN ex
    ELSE IF ~can_trade(r, symbol, max_total_trades_per_day,
                       max_trades_per_stock_per_day).result
    THEN ex
    ELSE IF symbol \in fetch_raises
    THEN record_failure(ex)
    ELSE ex

\* the symbol loop of _scan_and_trade from self.symbols[k] on
RECURSIVE scan_symbols(_, _, _, _, _)
scan_symbols(k, ex, r, open, fetch_raises) ==
    IF k > Len(LiveSymbols)
    THEN ex
    ELSE scan_symbols(k + 1, scan_symbol(LiveSymbols[k], ex, r, open, fetch_raises),
                      r, open, fetch_raises)

\* What the body of the symbol loop appends to potential_signals for one
\* symbol, lines 108-135.  `signals` are the symbols whose fetch returns a
\* non-empty frame on which the strategy has a signal.  add_indicators,
\* strategy.evaluate and the append are indented under `if intraday.empty:`
\* after its `continue`: a non-empty frame skips the block and an empty one
\* leaves the iteration before it.
scan_symbol_signals(symbol, r, open, fetch_raises, signals) ==
    IF HasPosition(open, symbol)
    THEN <<>>
    ELSE IF ~can_trade(r, symbol, max_total_trades_per_day,
                       max_trades_per_stock_per_day).result
    THEN <<>>
    ELSE IF symbol \in fetch_raises
    THEN <<>>
    ELSE IF symbol \notin signals
    THEN <<>>
    ELSE <<>>

RECURSIVE scan_signals(_, _, _, _, _)
scan_signals(k, r, open, fetch_raises, signals) ==
    IF k > Len(LiveSymbols)
    THEN <<>>
    ELSE scan_symbol_signals(LiveSymbols[k], r, open, fetch_raises, signals)
             \o scan_signals(k + 1, r, open, fetch_raises, signals)

\* potential_signals as _scan_and_trade leaves the symbol loop with it
bot_potential_signals(r, open, tod, regime, fetch_raises, signals) ==
    IF tod > last_entry
    THEN <<>>
    ELSE IF r.total_trades >= max_total_trades_per_day
    THEN <<>>
    ELSE IF regime = "NEUTRAL"
    THEN <<>>
    ELSE scan_signals(1, r, open, fetch_raises, signals)

\* IntradayTradingBot._scan_and_trade: the executor it leaves.  regime is
\* NEUTRAL also when the index fetch raised.  potential_signals stays empty, so
\* the admission loop makes no iteration.
bot_scan_and_trade(ex, r, open, tod, regime, fetch_raises) ==
    IF tod > last_entry
    THEN ex
    ELSE IF r.total_trades >= max_total_trades_per_day
    THEN ex
    ELSE IF regime = "NEUTRAL"
    THEN ex
    ELSE scan_symbols(1, ex, r, open, fetch_raises)

\* What _manage_positions does with the outcome r of manage_exit: on True it
\* registers the mark-to-market PnL at the bar's close and deletes the position.
bot_after_manage_exit(st, close, r) ==
    IF ~r.raised /\ r.ret
    THEN [ex |-> [api_failures |-> r.ex.api_failures, kill_switch |-> r.ex.kill_switch],
          risk |-> register_exit(st.risk, mark_to_market(r.position, close)),
          open |-> DelPosition(st.open, r.position.symbol),
          managed |-> Append(st.managed,
                             [symbol |-> r.position.symbol, after |-> r.position,
                              placed |-> r.placed, ret |-> r.ret, raised |-> r.raised,
                              registered |-> TRUE])]
    ELSE [ex |-> [api_failures |-> r.ex.api_failures, kill_switch |-> r.ex.kill_switch],
          risk |-> st.risk,
          open |-> PutPosition(st.open, r.position),
          managed |-> Append(st.managed,
                             [symbol |-> r.position.symbol, after |-> r.position,
                              placed |-> r.placed, ret |-> r.ret, raised |-> r.raised,
                              registered |-> FALSE])]

\* The body of the loop of IntradayTradingBot._manage_positions for one
\* position.  st = [ex, risk, open, managed]; an exception that leaves
\* manage_exit is caught and logged.
bot_manage_position(position, inp, st, tod) ==
    IF inp.kind = "raise"
    THEN [st EXCEPT !.ex = record_failure(@)]
    ELSE IF inp.kind = "empty"
    THEN st
    ELSE bot_after_manage_exit(
             st, inp.bar.close,
             manage_exit("OrderExecutor",
                         ExecutorState(st.ex.api_failures, st.ex.kill_switch, <<>>),
                         position, inp.bar, tod, <<inp.ok, inp.ok>>))

\* IntradayTradingBot._manage_positions from the i-th item of
\* list(self.open_positions.items()) on
RECURSIVE bot_manage_positions(_, _, _, _, _)
bot_manage_positions(snapshot, i, st, tod, inputs) ==
    IF i > Len(snapshot)
    THEN st
    ELSE bot_manage_positions(snapshot, i + 1,
                              bot_manage_position(snapshot[i], inputs[i], st, tod),
                              tod, inputs)

\* IntradayTradingBot._force_square_off: place_exit is called with a third
\* positional argument, which OrderExecutor.place_exit does not take
force_square_off(ex, open) ==
    IF open = <<>>
    THEN [raised |-> FALSE]
    ELSE [raised |-> place_exit(ex, open[1], TRUE, TRUE).result = TypeError]

InitLive ==
    /\ api_failures = 0
    /\ kill_switch = FALSE
    /\ orders = <<>>
    /\ open_positions = <<>>
    /\ risk = NewRiskState
    /\ trades_history = <<>>
    /\ last_date = NoDate
    /\ now = NoTime
    /\ pc = "start"
    /\ obs = NoObs

\* the owner places a position in open_positions
AdoptPosition ==
    /\ pc = "start"
    /\ \E k \in DOMAIN LiveSymbols, side \in Sides, qty \in {1, MaxQty} :
         /\ ~HasPosition(open_positions, LiveSymbols[k])
         /\ open_positions' = PutPosition(open_positions,
                OpenPosition(LiveSymbols[k], SignalLevels(side, 1, TRUE), qty, FALSE, NoTime))
    /\ obs' = [op |-> "adopt"]
    /\ UNCHANGED <<executor_vars, orders, risk, trades_history, last_date, now, pc>>

\* prepare_day, then run() is entered
PrepareDay ==
    /\ pc = "start"
    /\ risk' = reset(risk)
    /\ pc' = "run"
    /\ obs' = [op |-> "prepare_day"]
    /\ UNCHANGED <<executor_vars, orders, open_positions, trades_history, last_date, now>>

\* run(): an iteration before scan_start
Sleep ==
    /\ pc = "run"
    /\ \E tod \in LiveTimes :
         /\ tod >= now.tod /\ tod < scan_start
         /\ now' = [day |-> 1, tod |-> tod]
    /\ obs' = [op |-> "sleep"]
    /\ UNCHANGED <<executor_vars, orders, open_positions, risk, trades_history, last_date, pc>>

\* run(): the iteration at or after force_exit
ForceSquareOff ==
    /\ pc = "run"
    /\ \E tod \in LiveTimes :
         /\ tod >= now.tod /\ tod >= force_exit
         /\ now' = [day |-> 1, tod |-> tod]
    /\ LET r == force_square_off(Executor, open_positions)
       IN  /\ pc' = IF r.raised THEN "crashed" ELSE "done"
           /\ obs' = [op |-> "_force_square_off", raised |-> r.raised]
    /\ UNCHANGED <<executor_vars, orders, open_positions, risk, trades_history, last_date>>

\* run(): an iteration in trading hours with the kill switch set
Halt ==
    /\ pc = "run"
    /\ kill_switch
    /\ \E tod \in LiveTimes :
         /\ tod >= now.tod /\ tod >= scan_start /\ tod < force_exit
         /\ now' = [day |-> 1, tod |-> tod]
    /\ pc' = "halted"
    /\ obs' = [op |-> "halt"]
    /\ UNCHANGED <<executor_vars, orders, open_positions, risk, trades_history, last_date>>

\* run(): an iteration in trading hours, up to the end of _scan_and_trade
ScanAndTrade ==
    /\ pc = "run"
    /\ ~kill_switch
    /\ \E tod \in LiveTimes, regime \in {"NEUTRAL", "BULLISH"},
          fetch_raises \in SUBSET {LiveSymbols[k] : k \in DOMAIN LiveSymbols},
          signals \in SUBSET {LiveSymbols[k] : k \in DOMAIN LiveSymbols} :
         /\ tod >= now.tod /\ tod >= scan_start /\ tod < force_exit
         /\ now' = [day |-> 1, tod |-> tod]
         /\ SetExecutor([ex |-> bot_scan_and_trade(Executor, risk, open_positions, tod,
                                                   regime, fetch_raises)])
         /\ obs' = [op |-> "_scan_and_trade", regime |-> regime,
                    signals |-> signals \ fetch_raises,
                    potential_signals |->
                        bot_potential_signals(risk, open_positions, tod, regime,
                                              fetch_raises, signals)]
    /\ pc' = "manage"
    /\ UNCHANGED <<orders, open_positions, risk, trades_history, last_date>>

SetLive(st) ==
    /\ SetExecutor(st)
    /\ risk' = st.risk
    /\ open_positions' = st.open
    /\ obs' = [op |-> "_manage_positions", managed |-> st.managed]

\* run(): _manage_positions(now) of the same iteration
ManagePositions ==
    /\ pc = "manage"
    /\ \E inputs \in [DOMAIN open_positions -> ManageInputs] :
         SetLive(bot_manage_positions(open_positions, 1,
                     [ex |-> Executor, risk |-> risk, open |-> open_positions,
                      managed |-> <<>>], now.tod, inputs))
    /\ pc' = "run"
    /\ UNCHANGED <<orders, trades_history, last_date, now>>

NextLive ==
    \/ AdoptPosition
    \/ PrepareDay
    \/ Sleep
    \/ ForceSquareOff
    \/ Halt
    \/ ScanAndTrade
    \/ ManagePositions

SpecLive == InitLive /\ [][NextLive]_vars

-----------------------------------------------------------------------------
(* SpecBacktest: BacktestEngine.run (src/trading_bot/backtest.py) from its   *)
(* time loop on, over the MockExecutor.  The timeline, the bars of            *)
(* processed_data and the signals the strategy returns are inputs.           *)

\* the keys of data_map, in insertion order: three stocks, the index and a
\* stock of cfg.excluded_symbols
data_map_symbols == <<"INFY", "TCS", "SBIN", "NIFTY 50", "HDFCBANK">>

\* TradingConfig.excluded_symbols
excluded_symbols == {"HDFCBANK", "BANKBARODA"}

\* times of day of the timeline: before scan_start, in the entry window, at
\* last_entry, past it, and at force_exit
BacktestTimes == {scan_start - 5, 10 * 60, last_entry, 12 * 60, force_exit}

Timestamps == [day : 1 .. MaxDays, tod : BacktestTimes]

\* sorted(list(all_timestamps)): the order of the timeline
Later(a, b) == a.day > b.day \/ (a.day = b.day /\ a.tod > b.tod)

\* What self.strategy.evaluate(symbol, current_view, now, nifty_view) gives for
\* a symbol: no signal (also: no bar at `now`, fewer than 30 rows, an exception),
\* or a TradeSignal.  The signals of a symbol have one <<side, stop distance,
\* score>>, by the symbol's place in data_map: the first and the last tie on the
\* score, above the second.
SignalKinds == << <<"BUY", 1, 5>>, <<"SELL", 2, 4>>, <<"BUY", 1, 5>>,
                 <<"BUY", 1, 5>>, <<"BUY", 1, 5>> >>

NoSignal == [symbol |-> NoArg, side |-> NoArg, entry |-> Missing, stop_loss |-> Missing,
             target_1 |-> Missing, target_2 |-> Missing, score |-> Missing,
             relative_volume |-> Missing]

TradeSignal(symbol, kind) ==
    [symbol |-> symbol, side |-> kind[1], entry |-> EntryPrice,
     stop_loss |-> SignalLevels(kind[1], kind[2], TRUE).stop_loss,
     target_1 |-> SignalLevels(kind[1], kind[2], TRUE).target_1,
     target_2 |-> SignalLevels(kind[1], kind[2], TRUE).target_2,
     score |-> kind[3], relative_volume |-> 1]

\* evaluations[k]: whether the strategy returns a signal for data_map_symbols[k]
Evaluations ==
    { e \in [DOMAIN data_map_symbols -> BOOLEAN] :
        \A k \in DOMAIN data_map_symbols :
            (data_map_symbols[k] = "NIFTY 50" \/ data_map_symbols[k] \in excluded_symbols)
                => e[k] }

evaluate(k, evaluations) ==
    IF evaluations[k]
    THEN TradeSignal(data_map_symbols[k], SignalKinds[k])
    ELSE NoSignal

\* the rows of processed_data: the narrow bars in an up-trend
BacktestBars == { c \in Bars : c.ema9 = EntryPrice /\ c.high - c.low <= 1 }

\* the head of one iteration of the time loop of run(): reset on a day change
day_change_always(last, r, ts) ==
    [risk |-> reset(r), last_date |-> ts.day, reset |-> TRUE]

day_change(last, r, ts) ==
    IF last # ts.day
    THEN [risk |-> reset(r), last_date |-> ts.day, reset |-> TRUE]
    ELSE [risk |-> r, last_date |-> last, reset |-> FALSE]

\* mutant: the entry scan is what a timestamp of the session starts with
dispatch_scan_first(ts) ==
    IF ts.tod < scan_start
    THEN "next"
    ELSE IF ts.tod >= force_exit
    THEN "force"
    ELSE "scan"

\* where the iteration goes after the head
dispatch(ts) ==
    IF ts.tod < scan_start
    THEN "next"
    ELSE IF ts.tod >= force_exit
    THEN "force"
    ELSE "manage"

\* mutant: the entry scan follows at every timestamp
after_manage_always(ts) == "scan"

\* where the iteration goes after _manage_positions, lines 116-118
after_manage(ts) ==
    IF ts.tod <= last_entry THEN "scan" ELSE "next"

\* the trade-log record of an exit
TradeRecord(position, exit_price, exit_qty, reason, ts) ==
    [symbol |-> position.symbol, side |-> position.side, entry |-> position.entry,
     exit |-> exit_price, quantity |-> exit_qty,
     pnl |-> (exit_price - position.entry) * Direction(position.side) * exit_qty,
     reason |-> reason, time |-> ts]

\* _manage_positions, lines 139-170: the exit order found last in
\* self.executor.orders is logged and registered.  st = [orders, risk, open,
\* log, remove]; position is the position after manage_exit.
bt_log_exit(st, position, close, ts, last_order) ==
    [orders |-> st.orders,
     risk |-> register_exit(st.risk,
                 TradeRecord(position,
                             IF last_order.price = Missing THEN close ELSE last_order.price,
                             IF last_order.qty = Missing THEN position.quantity
                                                      ELSE last_order.qty,
                             last_order.reason, ts).pnl),
     open |-> IF last_order.qty = Missing /\ last_order.reason # PartialReason
              THEN PutPosition(st.open, [position EXCEPT !.quantity = 0])
              ELSE PutPosition(st.open, position),
     log |-> Append(st.log,
                 TradeRecord(position,
                             IF last_order.price = Missing THEN close ELSE last_order.price,
                             IF last_order.qty = Missing THEN position.quantity
                                                      ELSE last_order.qty,
                             last_order.reason, ts)),
     remove |-> st.remove]

\* mutant: no position is listed for removal
bt_mark_closed_never(st, symbol) == st

\* lines 172-174: a position whose quantity is 0 is listed for removal
bt_mark_closed(st, symbol) ==
    IF PositionOf(st.open, symbol).quantity = 0
    THEN [st EXCEPT !.remove = Append(@, symbol)]
    ELSE st

\* what _manage_positions does with the outcome r of manage_exit
bt_after_manage_exit(st, close, ts, r) ==
    IF /\ r.ret
       /\ r.ex.orders # <<>>
       /\ r.ex.orders[Len(r.ex.orders)].type = "EXIT"
       /\ r.ex.orders[Len(r.ex.orders)].symbol = r.position.symbol
    THEN bt_mark_closed(
             bt_log_exit([st EXCEPT !.orders = r.ex.orders], r.position, close, ts,
                         r.ex.orders[Len(r.ex.orders)]),
             r.position.symbol)
    ELSE bt_mark_closed([st EXCEPT !.orders = r.ex.orders,
                                   !.open = PutPosition(@, r.position)],
                        r.position.symbol)

\* the body of the loop of _manage_positions for one position; bar is NoBar
\* when the symbol has no row at `now`
bt_manage_position(position, bar, st, ts) ==
    IF bar = NoBar
    THEN st
    ELSE bt_after_manage_exit(st, bar.close, ts,
             manage_exit("MockExecutor", ExecutorState(0, FALSE, st.orders),
                         position, bar, ts.tod, <<TRUE, TRUE>>))

RECURSIVE bt_manage_loop(_, _, _, _, _)
bt_manage_loop(snapshot, i, st, ts, bars) ==
    IF i > Len(snapshot)
    THEN st
    ELSE bt_manage_loop(snapshot, i + 1,
                        bt_manage_position(snapshot[i], bars[i], st, ts), ts, bars)

\* lines 176-177
RECURSIVE bt_remove(_, _, _)
bt_remove(open, remove, i) ==
    IF i > Len(remove)
    THEN open
    ELSE bt_remove(DelPosition(open, remove[i]), remove, i + 1)

\* BacktestEngine._manage_positions
bt_manage_positions(st, ts, bars) ==
    bt_manage_loop(st.open, 1, st, ts, bars)

\* mutant: every key of data_map is evaluated
bt_candidate_every_key(k, r, open, evaluations) ==
    IF ~can_trade(r, data_map_symbols[k], max_total_trades_per_day,
                  max_trades_per_stock_per_day).result
    THEN <<>>
    ELSE IF evaluate(k, evaluations) = NoSignal
    THEN <<>>
    ELSE <<evaluate(k, evaluations)>>

\* _scan_and_enter, lines 204-240: the candidates, in data_map order
bt_candidate(k, r, open, evaluations) ==
    IF data_map_symbols[k] = "NIFTY 50" \/ data_map_symbols[k] \in excluded_symbols
    THEN <<>>
    ELSE IF HasPosition(open, data_map_symbols[k])
    THEN <<>>
    ELSE IF ~can_trade(r, data_map_symbols[k], max_total_trades_per_day,
                       max_trades_per_stock_per_day).result
    THEN <<>>
    ELSE IF evaluate(k, evaluations) = NoSignal
    THEN <<>>
    ELSE <<evaluate(k, evaluations)>>

RECURSIVE bt_candidates(_, _, _, _)
bt_candidates(k, r, open, evaluations) ==
    IF k > Len(data_map_symbols)
    THEN <<>>
    ELSE bt_candidate(k, r, open, evaluations) \o bt_candidates(k + 1, r, open, evaluations)

\* mutant: the signals stay in the order they were collected in
sort_signals_unsorted(signals, i, ranked) == signals

\* potential_signals.sort(key=(score, relative_volume), reverse=True): stable
KeyLess(a, b) ==
    a.score < b.score \/ (a.score = b.score /\ a.relative_volume < b.relative_volume)

insert_ranked(ranked, x, k) ==
    SubSeq(ranked, 1, k) \o <<x>> \o SubSeq(ranked, k + 1, Len(ranked))

RECURSIVE sort_signals(_, _, _)
sort_signals(signals, i, ranked) ==
    IF i > Len(signals)
    THEN ranked
    ELSE sort_signals(signals, i + 1,
             insert_ranked(ranked, signals[i],
                 Cardinality({j \in DOMAIN ranked : ~KeyLess(ranked[j], signals[i])})))

\* lines 253-267: the signal is sized and, with a positive quantity, entered.
\* st = [orders, risk, open, admitted, candidates]; admitted keeps, for each
\* position opened, the risk state as it was just before, and candidates the
\* signals collected
bt_enter(st, signal, qty, ts) ==
    IF qty > 0
    THEN [orders |-> mock_place_entry(st.orders, signal, qty),
          risk |-> register_trade(st.risk, signal.symbol),
          open |-> PutPosition(st.open,
                       OpenPosition(signal.symbol, signal, qty, FALSE, ts)),
          admitted |-> Append(st.admitted, [symbol |-> signal.symbol, before |-> st.risk]),
          candidates |-> st.candidates]
    ELSE st

\* the admission loop, lines 246-267, from the i-th ranked signal on
bt_admit_one(st, signal, ts) ==
    IF ~can_trade(st.risk, signal.symbol, max_total_trades_per_day,
                  max_trades_per_stock_per_day).result
    THEN st
    ELSE bt_enter(st, signal,
                  position_size(capital, max_trade_capital, risk_per_trade_pct_x100,
                                signal.entry, signal.stop_loss).result,
                  ts)

RECURSIVE bt_admit(_, _, _, _)
bt_admit(ranked, i, st, ts) ==
    IF i > Len(ranked)
    THEN st
    ELSE IF st.risk.total_trades >= max_total_trades_per_day
    THEN st
    ELSE bt_admit(ranked, i + 1, bt_admit_one(st, ranked[i], ts), ts)

\* lines 242-267: rank the collected signals and admit in that order
bt_rank_and_admit(st, ts) ==
    bt_admit(sort_signals(st.candidates, 1, <<>>), 1, st, ts)

\* IndexState of market_trend.py
IndexStates == {"BULLISH", "BEARISH", "NEUTRAL"}

\* the last row of an index window: close, ema20 and ema50 relative to one
\* another
IndexBars ==
    { [close |-> EntryPrice + 1, ema20 |-> EntryPrice, ema50 |-> EntryPrice - 1],
      [close |-> EntryPrice - 1, ema20 |-> EntryPrice, ema50 |-> EntryPrice + 1],
      [close |-> EntryPrice, ema20 |-> EntryPrice, ema50 |-> EntryPrice] }

\* no "NIFTY 50" in data_map, no index row at `now`, or fewer than 20 rows
\* before it
NoIndex == [close |-> Missing, ema20 |-> Missing, ema50 |-> Missing]

\* mutant: the trend follows the close alone
analyze_index_trend_price_only(rows, last) ==
    IF rows < 50
    THEN "NEUTRAL"
    ELSE IF last.close > last.ema50
    THEN "BULLISH"
    ELSE IF last.close < last.ema50
    THEN "BEARISH"
    ELSE "NEUTRAL"

\* mutant: a warm-up of 20 rows is enough
analyze_index_trend_short_warmup(rows, last) ==
    IF rows < 20
    THEN "NEUTRAL"
    ELSE IF last.close > last.ema50 /\ last.ema20 > last.ema50
    THEN "BULLISH"
    ELSE IF last.close < last.ema50 /\ last.ema20 < last.ema50
    THEN "BEARISH"
    ELSE "NEUTRAL"

\* analyze_index_trend(df) for a frame of `rows` rows whose last row is `last`
analyze_index_trend(rows, last) ==
    IF rows < 50
    THEN "NEUTRAL"
    ELSE IF last.close > last.ema50 /\ last.ema20 > last.ema50
    THEN "BULLISH"
    ELSE IF last.close < last.ema50 /\ last.ema20 < last.ema50
    THEN "BEARISH"
    ELSE "NEUTRAL"

\* nifty_df.iloc[idx-20:idx+1]: the rows of the view handed to
\* analyze_index_trend
IndexViewRows == 21

\* _scan_and_enter, lines 180-197: index_state, which the rest of the method
\* does not read
bt_index_state(r, nifty) ==
    IF r.total_trades >= max_total_trades_per_day
    THEN NoArg
    ELSE IF nifty = NoIndex
    THEN "NEUTRAL"
    ELSE analyze_index_trend(IndexViewRows, nifty)

\* BacktestEngine._scan_and_enter
bt_scan_and_enter(st, ts, evaluations) ==
    IF st.risk.total_trades >= max_total_trades_per_day
    THEN st
    ELSE bt_rank_and_admit(
             [st EXCEPT !.candidates = bt_candidates(1, st.risk, st.open, evaluations)], ts)

\* mutant: the closed position stays in open_positions
bt_force_close_keep(st, position, exit_price, ts) ==
    [orders |-> mock_place_exit([orders |-> st.orders], position, ForceReason,
                                exit_price, Missing).ex.orders,
     risk |-> register_exit(st.risk,
                  TradeRecord(position, exit_price, position.quantity, ForceReason, ts).pnl),
     open |-> st.open,
     log |-> Append(st.log,
                 TradeRecord(position, exit_price, position.quantity, ForceReason, ts))]

\* the body of the loop of _force_close_all for one position; close is Missing
\* when the symbol has no row at `now`.  st = [orders, risk, open, log]
bt_force_close(st, position, exit_price, ts) ==
    [orders |-> mock_place_exit([orders |-> st.orders], position, ForceReason,
                                exit_price, Missing).ex.orders,
     risk |-> register_exit(st.risk,
                  TradeRecord(position, exit_price, position.quantity, ForceReason, ts).pnl),
     open |-> DelPosition(st.open, position.symbol),
     log |-> Append(st.log,
                 TradeRecord(position, exit_price, position.quantity, ForceReason, ts))]

\* BacktestEngine._force_close_all
RECURSIVE bt_force_close_all(_, _, _, _, _)
bt_force_close_all(snapshot, i, st, ts, closes) ==
    IF i > Len(snapshot)
    THEN st
    ELSE bt_force_close_all(snapshot, i + 1,
             bt_force_close(st, snapshot[i],
                            IF closes[i] = Missing THEN snapshot[i].entry ELSE closes[i], ts),
             ts, closes)

\* what is followed of a run: the timestamps processed, their dates, the
\* a quotient of two integers that Python computes as a float
Ratio(n, d) == [num |-> n, den |-> d]

\* BacktestResult(): the defaults of the dataclass
BacktestResult ==
    [total_trades |-> 0, wins |-> 0, losses |-> 0, total_pnl |-> 0,
     win_rate |-> Ratio(0, 1), trades |-> <<>>]

\* sum(t["pnl"] for t in self.trades_history)
RECURSIVE sum_pnl(_)
sum_pnl(log) == IF log = <<>> THEN 0 ELSE Head(log).pnl + sum_pnl(Tail(log))

\* mutant: only the records with pnl < 0 count as losses
stats_strict_losses(log) ==
    IF log = <<>>
    THEN BacktestResult
    ELSE LET wins == SelectSeq(log, LAMBDA t : t.pnl > 0)
             losses == SelectSeq(log, LAMBDA t : t.pnl < 0)
         IN  [total_trades |-> Len(log), wins |-> Len(wins), losses |-> Len(losses),
              total_pnl |-> sum_pnl(log), win_rate |-> Ratio(Len(wins), Len(log)),
              trades |-> log]

\* BacktestEngine._stats() over self.trades_history
stats(log) ==
    IF log = <<>>
    THEN BacktestResult
    ELSE LET wins == SelectSeq(log, LAMBDA t : t.pnl > 0)
             losses == SelectSeq(log, LAMBDA t : t.pnl <= 0)
         IN  [total_trades |-> Len(log), wins |-> Len(wins), losses |-> Len(losses),
              total_pnl |-> sum_pnl(log), win_rate |-> Ratio(Len(wins), Len(log)),
              trades |-> log]

\* reset() calls made at timestamps of each date, the positions entered per
\* symbol on the current date, the admissions of the last scan with its ranked
\* signals, and the closes the last force close found
NoRun ==
    [op |-> "init", bars |-> 0, dates |-> {}, resets |-> [d \in 1 .. MaxDays |-> 0],
     entered |-> [k \in DOMAIN data_map_symbols |-> 0], reset |-> FALSE, admitted |-> <<>>,
     candidates |-> <<>>, closes |-> <<>>, result |-> NoArg, index_state |-> NoArg,
     signalled |-> {}]

InitBacktest ==
    /\ api_failures = 0
    /\ kill_switch = FALSE
    /\ orders = <<>>
    /\ open_positions = <<>>
    /\ risk = NewRiskState
    /\ trades_history = <<>>
    /\ last_date = NoDate
    /\ now = NoTime
    /\ pc = "next"
    /\ obs = NoRun

SetDay(ts, head) ==
    /\ risk' = head.risk
    /\ last_date' = head.last_date
    /\ obs' = [obs EXCEPT !.op = "advance",
                          !.bars = @ + 1,
                          !.dates = @ \cup {ts.day},
                          !.resets[ts.day] = @ + (IF head.reset THEN 1 ELSE 0),
                          !.entered = IF ts.day = now.day
                                      THEN @ ELSE [k \in DOMAIN data_map_symbols |-> 0],
                          !.reset = head.reset,
                          !.admitted = <<>>,
                          !.candidates = <<>>,
                          !.closes = <<>>,
                          !.index_state = NoArg,
                          !.signalled = {}]

\* run(): the next timestamp of the timeline is taken up
Advance ==
    /\ pc = "next"
    /\ obs.bars < MaxBars
    /\ \E ts \in Timestamps :
         /\ Later(ts, now)
         /\ now' = ts
         /\ SetDay(ts, day_change(last_date, risk, ts))
         /\ pc' = dispatch(ts)
    /\ UNCHANGED <<executor_vars, orders, open_positions, trades_history>>

SetManaged(st) ==
    /\ orders' = st.orders
    /\ risk' = st.risk
    /\ open_positions' = bt_remove(st.open, st.remove, 1)
    /\ trades_history' = st.log

\* run(): self._manage_positions(current_time, processed_data)
BacktestManagePositions ==
    /\ pc = "manage"
    /\ \E bars \in [DOMAIN open_positions -> BacktestBars \cup {NoBar}] :
         SetManaged(bt_manage_positions(
             [orders |-> orders, risk |-> risk, open |-> open_positions,
              log |-> trades_history, remove |-> <<>>], now, bars))
    /\ pc' = after_manage(now)
    /\ obs' = [obs EXCEPT !.op = "_manage_positions", !.reset = FALSE]
    /\ UNCHANGED <<executor_vars, last_date, now>>

SetEntered(st, index_state, evaluations) ==
    /\ orders' = st.orders
    /\ risk' = st.risk
    /\ open_positions' = st.open
    /\ obs' = [obs EXCEPT !.op = "_scan_and_enter",
                          !.reset = FALSE,
                          !.admitted = st.admitted,
                          !.candidates = st.candidates,
                          !.index_state = index_state,
                          !.signalled = {data_map_symbols[k] :
                                            k \in {j \in DOMAIN evaluations : evaluations[j]}},
                          !.entered = [k \in DOMAIN data_map_symbols |->
                                         @[k] + Cardinality({i \in DOMAIN st.admitted :
                                                 st.admitted[i].symbol = data_map_symbols[k]})]]

\* run(): self._scan_and_enter(current_time, processed_data)
BacktestScanAndEnter ==
    /\ pc = "scan"
    /\ \E evaluations \in Evaluations, nifty \in IndexBars \cup {NoIndex} :
         SetEntered(bt_scan_and_enter(
                        [orders |-> orders, risk |-> risk, open |-> open_positions,
                         admitted |-> <<>>, candidates |-> <<>>], now, evaluations),
                    bt_index_state(risk, nifty), evaluations)
    /\ pc' = "next"
    /\ UNCHANGED <<executor_vars, trades_history, last_date, now>>

SetClosed(st) ==
    /\ orders' = st.orders
    /\ risk' = st.risk
    /\ open_positions' = st.open
    /\ trades_history' = st.log

\* run(): self._force_close_all(current_time, processed_data)
BacktestForceCloseAll ==
    /\ pc = "force"
    /\ \E closes \in [DOMAIN open_positions -> {Missing, EntryPrice - 1, EntryPrice + 1}] :
         /\ SetClosed(bt_force_close_all(open_positions, 1,
                [orders |-> orders, risk |-> risk, open |-> open_positions,
                 log |-> trades_history], now, closes))
         /\ obs' = [obs EXCEPT !.op = "_force_close_all", !.reset = FALSE,
                               !.closes = closes]
    /\ pc' = "next"
    /\ UNCHANGED <<executor_vars, last_date, now>>

\* run(): the timeline is exhausted, return self._stats()
BacktestReturn ==
    /\ pc = "next"
    /\ pc' = "done"
    /\ obs' = [obs EXCEPT !.op = "run", !.reset = FALSE, !.signalled = {},
                          !.result = stats(trades_history)]
    /\ UNCHANGED <<executor_vars, orders, open_positions, risk, trades_history,
                   last_date, now>>

NextBacktest ==
    \/ Advance
    \/ BacktestManagePositions
    \/ BacktestScanAndEnter
    \/ BacktestForceCloseAll
    \/ BacktestReturn

SpecBacktest == InitBacktest /\ [][NextBacktest]_vars

-----------------------------------------------------------------------------
(* StrategyEngine (src/trading_bot/strategy.py) *)

min_sss_score == 4
impulse_volume_multiplier_x10 == 15
large_candle_body_multiplier_x10 == 12

\* a value pandas reports as missing (the rolling means of the first rows)
NaN == -1

notna(x) == x # NaN

Largest(a, b) == IF a >= b THEN a ELSE b

Smallest(a, b) == IF a <= b THEN a ELSE b

\* df["body"] = (df["close"] - df["open"]).abs() of add_indicators
body(c) == IF c.close >= c.open THEN c.close - c.open ELSE c.open - c.close

\* TradeSignal(symbol=..., side=..., setup=..., entry=..., stop_loss=...,
\* target_1=..., target_2=..., reason=..., created_at=now): score and
\* relative_volume are not passed and keep the defaults 0 and 0.0 of the
\* dataclass.  stop_loss is kept in 1/10000 of a tick, the unit in which
\* vwap * 1.0025 and vwap * 0.9975 are whole numbers.
StrategySignal(symbol, side, setup, candle, stop_x10000, ts) ==
    [symbol |-> symbol, side |-> side, setup |-> setup, entry |-> candle.close,
     stop_loss_x10000 |-> stop_x10000,
     target_1 |-> IF side = "SELL" THEN candle.s1 ELSE candle.r1,
     target_2 |-> IF side = "SELL" THEN candle.s2 ELSE candle.r2,
     created_at |-> ts, score |-> 0, relative_volume |-> 0]

_touches_resistance(candle, levels) == \E level \in levels : candle.high >= level

_touches_support(candle, levels) == \E level \in levels : candle.low <= level

_is_bearish_impulse(candle) ==
    /\ candle.close < candle.open
    /\ notna(candle.avg_vol_20)
    /\ notna(candle.avg_body_20)
    /\ candle.volume * 10 >= impulse_volume_multiplier_x10 * candle.avg_vol_20
    /\ body(candle) * 10 >= large_candle_body_multiplier_x10 * candle.avg_body_20

_is_bullish_impulse(candle) ==
    /\ candle.close > candle.open
    /\ notna(candle.avg_vol_20)
    /\ notna(candle.avg_body_20)
    /\ candle.volume * 10 >= impulse_volume_multiplier_x10 * candle.avg_vol_20
    /\ body(candle) * 10 >= large_candle_body_multiplier_x10 * candle.avg_body_20

_pullback_short_rejection(candle) ==
    /\ \E lvl \in {candle.vwap, candle.ema20, candle.pp} : candle.high >= lvl
    /\ candle.close < candle.ema9
    /\ candle.close < candle.open

_pullback_long_rejection(candle) ==
    /\ \E lvl \in {candle.vwap, candle.ema20, candle.pp} : candle.low <= lvl
    /\ candle.close > candle.ema9
    /\ candle.close > candle.open

\* the four setups of evaluate, in the order they are tried; df = [rows, candle,
\* prev, high3, low3] with candle = df.iloc[-1], prev = df.iloc[-2] and high3,
\* low3 = df["high"].tail(3).max(), df["low"].tail(3).min()
strategy_setups(symbol, df, ts, candle, prev, bearish, bullish) ==
    IF /\ bearish
       /\ _touches_resistance(candle, {candle.vwap, candle.pp, candle.r1})
       /\ candle.close < candle.vwap
       /\ candle.close < candle.ema9
       /\ candle.volume >= prev.volume
    THEN StrategySignal(symbol, "SELL", "Rejection", candle,
                        Largest(candle.vwap * 10025, df.high3 * 10000), ts)
    ELSE IF /\ bullish
            /\ _touches_support(candle, {candle.vwap, candle.pp, candle.s1})
            /\ candle.close > candle.ema9
            /\ candle.volume >= prev.volume
    THEN StrategySignal(symbol, "BUY", "Rejection", candle,
                        Smallest(candle.vwap * 9975, df.low3 * 10000), ts)
    ELSE IF bearish /\ _is_bearish_impulse(prev) /\ _pullback_short_rejection(candle)
    THEN StrategySignal(symbol, "SELL", "Pullback", candle,
                        Largest(candle.vwap, candle.high) * 10000, ts)
    ELSE IF bullish /\ _is_bullish_impulse(prev) /\ _pullback_long_rejection(candle)
    THEN StrategySignal(symbol, "BUY", "Pullback", candle,
                        Smallest(candle.vwap, candle.low) * 10000, ts)
    ELSE NoSignal

\* StrategyEngine.evaluate(symbol, df, now): a TradeSignal or None (NoSignal)
strategy_evaluate(symbol, df, ts) ==
    IF df.rows < 25
    THEN NoSignal
    ELSE strategy_setups(symbol, df, ts, df.candle, df.prev,
             /\ df.candle.close < df.candle.vwap
             /\ df.candle.ema9 < df.candle.ema20
             /\ df.candle.rsi < 45,
             /\ df.candle.close > df.candle.vwap
             /\ df.candle.ema9 > df.candle.ema20
             /\ df.candle.rsi > 55)

\* the trend indicators <<ema9, ema20, rsi>> of the last row
StrategyTrends ==
    { <<EntryPrice - 1, EntryPrice, 40>>, <<EntryPrice + 1, EntryPrice, 60>>,
      <<EntryPrice, EntryPrice, 50>> }

\* the last row of the view: the pivots lie one tick apart around vwap
StrategyCandles ==
    { [open |-> o, high |-> h, low |-> l, close |-> c, volume |-> v,
       vwap |-> EntryPrice, ema9 |-> t[1], ema20 |-> t[2], rsi |-> t[3],
       pp |-> EntryPrice, r1 |-> EntryPrice + 1, s1 |-> EntryPrice - 1,
       r2 |-> EntryPrice + 2, s2 |-> EntryPrice - 2] :
         o \in {1, 2 * EntryPrice - 1}, h \in Prices, l \in Prices,
         c \in {1, 2 * EntryPrice - 1}, v \in {1, 3}, t \in StrategyTrends }

\* the row before it: a bearish impulse, a bullish impulse, and a row of the
\* warm-up whose rolling means are missing
StrategyPrevBars ==
    { [open |-> EntryPrice + 1, close |-> EntryPrice - 1, volume |-> 3,
       avg_vol_20 |-> 2, avg_body_20 |-> 1],
      [open |-> EntryPrice - 1, close |-> EntryPrice + 1, volume |-> 3,
       avg_vol_20 |-> 2, avg_body_20 |-> 1],
      [open |-> EntryPrice, close |-> EntryPrice, volume |-> 1,
       avg_vol_20 |-> NaN, avg_body_20 |-> NaN] }

\* the views evaluate is called with: open and close lie within [low, high],
\* and the extremes of the last three rows include those of the last
StrategyViews ==
    { df \in [rows : {24, 25}, candle : StrategyCandles, prev : StrategyPrevBars,
              high3 : Prices, low3 : Prices] :
        /\ df.candle.low <= df.candle.open /\ df.candle.open <= df.candle.high
        /\ df.candle.low <= df.candle.close /\ df.candle.close <= df.candle.high
        /\ df.high3 \in {df.candle.high, df.candle.high + 1}
        /\ df.low3 \in {df.candle.low, df.candle.low - 1} }

InitStrategy ==
    /\ api_failures = 0
    /\ kill_switch = FALSE
    /\ obs = NoObs
    /\ Idle

\* one call self.strategy.evaluate(symbol, df, now)
CallStrategyEvaluate ==
    /\ obs.op # "StrategyEngine.evaluate"
    /\ \E df \in StrategyViews :
         obs' = [op |-> "StrategyEngine.evaluate", df |-> df,
                 result |-> strategy_evaluate(UnitSymbol, df, [day |-> 1, tod |-> 10 * 60])]
    /\ UNCHANGED <<api_failures, kill_switch, orders, open_positions, risk,
                   trades_history, last_date, now, pc>>

\* the call returns to its caller
StrategyReturn ==
    /\ obs.op = "StrategyEngine.evaluate"
    /\ obs' = [op |-> "returned"]
    /\ UNCHANGED <<api_failures, kill_switch, orders, open_positions, risk,
                   trades_history, last_date, now, pc>>

NextStrategy ==
    \/ CallStrategyEvaluate
    \/ StrategyReturn

SpecStrategy == InitStrategy /\ [][NextStrategy]_vars

-----------------------------------------------------------------------------
(* SignalScorer (src/trading_bot/signal_scoring.py) *)

\* a key the row does not have
Absent == -2

\* row.get(key, default), given the value of the key or Absent
get(value, default) == IF value = Absent THEN default ELSE value

\* x >= factor * avg with the factor in tenths: False when avg is NaN
at_least_times(x, factor_x10, avg) ==
    IF avg = NaN THEN FALSE ELSE x * 10 >= factor_x10 * avg

\* nifty_candle is None
NoIndexBar == [close |-> Missing, vwap |-> Missing, ema9 |-> Missing,
               ema20 |-> Missing, rsi |-> Missing]

vwap_touch(candle) ==
    IF candle.high >= candle.vwap /\ candle.low <= candle.vwap THEN 1 ELSE 0

pivot_touch(candle) ==
    IF \E pv \in {candle.pp, candle.r1, candle.s1} : candle.high >= pv /\ candle.low <= pv
    THEN 1 ELSE 0

rejection(side, candle) ==
    IF side = "SELL"
    THEN IF /\ \E lvl \in {candle.vwap, candle.pp, candle.r1, candle.s1} : candle.high >= lvl
            /\ candle.close < candle.ema9
         THEN 1 ELSE 0
    ELSE IF /\ \E lvl \in {candle.vwap, candle.pp, candle.r1, candle.s1} : candle.low <= lvl
            /\ candle.close > candle.ema9
         THEN 1 ELSE 0

range_score(candle, prev_candle) ==
    IF at_least_times(candle.high - candle.low, 11,
                      get(prev_candle.avg_range_20, get(candle.avg_range_20, 0)))
    THEN 1 ELSE 0

volume_score(candle) ==
    IF at_least_times(candle.volume, 13, get(candle.avg_vol_20, 0)) THEN 1 ELSE 0

index_score(nifty_candle) ==
    IF nifty_candle = NoIndexBar
    THEN 0
    ELSE IF \/ /\ nifty_candle.close > nifty_candle.vwap
               /\ nifty_candle.ema9 > nifty_candle.ema20
               /\ nifty_candle.rsi > 55
            \/ /\ nifty_candle.close < nifty_candle.vwap
               /\ nifty_candle.ema9 < nifty_candle.ema20
               /\ nifty_candle.rsi < 45
    THEN 1 ELSE 0

\* mutant: every pivot the bar touches counts
calculate_score_pivot_count(side, candle, prev_candle, nifty_candle) ==
    vwap_touch(candle)
    + Cardinality({k \in 1 .. 3 : /\ candle.high >= <<candle.pp, candle.r1, candle.s1>>[k]
                                  /\ candle.low <= <<candle.pp, candle.r1, candle.s1>>[k]})
    + rejection(side, candle) + range_score(candle, prev_candle) + volume_score(candle)
    + index_score(nifty_candle)

\* mutant: a rejection needs the bar to touch the level
calculate_score_touch_rejection(side, candle, prev_candle, nifty_candle) ==
    vwap_touch(candle) + pivot_touch(candle)
    + (IF /\ \E lvl \in {candle.vwap, candle.pp, candle.r1, candle.s1} :
               candle.high >= lvl /\ candle.low <= lvl
          /\ IF side = "SELL" THEN candle.close < candle.ema9
                              ELSE candle.close > candle.ema9
       THEN 1 ELSE 0)
    + range_score(candle, prev_candle) + volume_score(candle) + index_score(nifty_candle)

\* SignalScorer.calculate_score(signal, candle, prev_candle, nifty_candle): of
\* the signal only the side is read for the score
calculate_score(side, candle, prev_candle, nifty_candle) ==
    vwap_touch(candle) + pivot_touch(candle) + rejection(side, candle)
    + range_score(candle, prev_candle) + volume_score(candle) + index_score(nifty_candle)

\* the pivots <<pp, r1, s1>> of a row: one or two ticks apart
ScorePivots ==
    { <<EntryPrice, EntryPrice + 1, EntryPrice - 1>>,
      <<EntryPrice, EntryPrice + 2, EntryPrice - 2>> }

ScoreCandles ==
    { c \in [high : Prices, low : Prices, close : Prices, ema9 : {EntryPrice},
             vwap : {EntryPrice}, pp : {EntryPrice},
             r1 : {EntryPrice + 1, EntryPrice + 2}, s1 : {EntryPrice - 1, EntryPrice - 2},
             volume : {1, 2}, avg_vol_20 : {Absent, NaN, 1, 2},
             avg_range_20 : {Absent, 2}] :
        /\ c.low <= c.high
        /\ c.close \in {c.low, c.high}
        /\ <<c.pp, c.r1, c.s1>> \in ScorePivots }

ScorePrevCandles == [avg_range_20 : {Absent, NaN, 1, 2}]

\* the index bars: bullish, bearish and one that is neither
ScoreIndexBars ==
    { [close |-> 2, vwap |-> 1, ema9 |-> 2, ema20 |-> 1, rsi |-> 60],
      [close |-> 1, vwap |-> 2, ema9 |-> 1, ema20 |-> 2, rsi |-> 40],
      [close |-> 2, vwap |-> 1, ema9 |-> 1, ema20 |-> 2, rsi |-> 50] }

InitScore ==
    /\ api_failures = 0
    /\ kill_switch = FALSE
    /\ obs = NoObs
    /\ Idle

\* one call self.calculate_score(signal, candle, prev_candle, nifty_candle)
CallCalculateScore ==
    /\ obs.op # "calculate_score"
    /\ \E side \in Sides, candle \in ScoreCandles, prev_candle \in ScorePrevCandles,
          nifty_candle \in ScoreIndexBars \cup {NoIndexBar} :
         obs' = [op |-> "calculate_score", side |-> side, candle |-> candle,
                 prev_candle |-> prev_candle, nifty_candle |-> nifty_candle,
                 repeated |-> FALSE,
                 result |-> calculate_score(side, candle, prev_candle, nifty_candle)]
    /\ UNCHANGED <<api_failures, kill_switch, orders, open_positions, risk,
                   trades_history, last_date, now, pc>>

\* a second call with the arguments of the first
RepeatCalculateScore ==
    /\ obs.op = "calculate_score"
    /\ ~obs.repeated
    /\ obs' = [obs EXCEPT !.repeated = TRUE,
                          !.result = calculate_score(obs.side, obs.candle, obs.prev_candle,
                                                     obs.nifty_candle)]
    /\ UNCHANGED <<api_failures, kill_switch, orders, open_positions, risk,
                   trades_history, last_date, now, pc>>

\* the call returns to its caller
ScoreReturn ==
    /\ obs.op = "calculate_score"
    /\ obs' = [op |-> "returned"]
    /\ UNCHANGED <<api_failures, kill_switch, orders, open_positions, risk,
                   trades_history, last_date, now, pc>>

NextScore ==
    \/ CallCalculateScore
    \/ RepeatCalculateScore
    \/ ScoreReturn

SpecScore == InitScore /\ [][NextScore]_vars

-----------------------------------------------------------------------------
(* Specification of the calls of analyze_index_trend *)

\* the lengths of the frames: empty, the 21 rows of the backtest's view, and
\* the lengths around the minimum of 50
TrendRows == {0, IndexViewRows, 49, 50, 60}

\* the last row of the frame, with ema20 and ema50 as given or as computed
TrendBars == [close : Prices, ema20 : Prices, ema50 : Prices]

InitTrend ==
    /\ api_failures = 0
    /\ kill_switch = FALSE
    /\ obs = NoObs
    /\ Idle

\* one call analyze_index_trend(df)
CallAnalyzeIndexTrend ==
    /\ obs.op # "analyze_index_trend"
    /\ \E rows \in TrendRows, last \in TrendBars :
         obs' = [op |-> "analyze_index_trend", rows |-> rows, last |-> last,
                 result |-> analyze_index_trend(rows, last)]
    /\ UNCHANGED <<api_failures, kill_switch, orders, open_positions, risk,
                   trades_history, last_date, now, pc>>

\* the call returns to its caller
TrendReturn ==
    /\ obs.op = "analyze_index_trend"
    /\ obs' = [op |-> "returned"]
    /\ UNCHANGED <<api_failures, kill_switch, orders, open_positions, risk,
                   trades_history, last_date, now, pc>>

NextTrend ==
    \/ CallAnalyzeIndexTrend
    \/ TrendReturn

SpecTrend == InitTrend /\ [][NextTrend]_vars

-----------------------------------------------------------------------------
(* Claims about OrderExecutor, checked under SpecExecutor *)

ExecutorCalls == {"place_entry", "place_exit"}

\* the number of broker attempts of the operation that failed
FailedCalls(o) == Cardinality({i \in DOMAIN o.calls : ~o.calls[i].ok})

\* the 1-based attempts of a place_entry call the broker would accept
Accepted(o) == {k \in DOMAIN o.outcomes : o.outcomes[k]}

\* C3 (as claimed): no broker call (kite.place_order) is ever made in a state
\* where kill_switch is already true, the retries of a place_entry call during
\* which the threshold was reached included.
C3_NoBrokerCallWhenKilled ==
    obs.op \in ExecutorCalls => \A i \in DOMAIN obs.calls : ~obs.calls[i].ks

\* C4: kill_switch is a one-way latch: no operation resets it, and a place_entry
\* or place_exit call (one the signature accepts) started while it is set
\* returns None, makes no broker call and leaves the executor as it was.
C4_KillSwitchLatch ==
    [][ /\ (kill_switch => kill_switch')
        /\ (kill_switch /\ obs'.op \in ExecutorCalls /\ ~obs'.extra_args
              => /\ obs'.result = None
                 /\ obs'.calls = <<>>
                 /\ api_failures' = api_failures) ]_vars

C4_Witness ==
    /\ obs.op = "place_entry"
    /\ obs.started_killed
    /\ obs.result = None
    /\ kill_switch

\* C5: one place_entry call makes at most max_order_retries + 1 broker attempts,
\* stops at the first attempt the broker accepts and returns that attempt's order
\* id, and returns None when every attempt fails; one place_exit call makes at
\* most one broker attempt.
C5_EntryRetriesExitOnce ==
    /\ obs.op = "place_entry" =>
         /\ Len(obs.calls) <= max_order_retries + 1
         /\ ~obs.started_killed /\ Accepted(obs) # {} =>
              LET first == CHOOSE k \in Accepted(obs) : \A j \in Accepted(obs) : k <= j
              IN  /\ obs.result = BrokerOrderId(first - 1)
                  /\ Len(obs.calls) = first
                  /\ \A i \in 1 .. first - 1 : ~obs.calls[i].ok
                  /\ obs.calls[first].ok
         /\ ~obs.started_killed /\ Accepted(obs) = {} =>
              /\ obs.result = None
              /\ Len(obs.calls) = max_order_retries + 1
    /\ obs.op = "place_exit" => Len(obs.calls) <= 1

C5_Witness ==
    /\ obs.op = "place_entry"
    /\ Len(obs.calls) = max_order_retries + 1
    /\ obs.result = BrokerOrderId(max_order_retries)

\* C6: every failed broker attempt and every _record_failure call adds exactly
\* one to api_failures, nothing else changes it, and kill_switch is true exactly
\* when api_failures >= kill_switch_api_failures.
C6_FailureCounter ==
    /\ (kill_switch <=> api_failures >= kill_switch_api_failures)
    /\ [][ /\ api_failures' = api_failures
                + (IF obs'.op = "_record_failure" THEN 1 ELSE FailedCalls(obs'))
           /\ (kill_switch' <=> api_failures' >= kill_switch_api_failures) ]_vars

C6_Witness ==
    /\ obs.op = "place_exit"
    /\ FailedCalls(obs) = 1
    /\ api_failures = kill_switch_api_failures
    /\ kill_switch

-----------------------------------------------------------------------------
(* Claims about ExitManager and evaluate_exit, checked under SpecExit *)

ExitCalls == {"manage_exit", "evaluate_exit"}

\* C2 (as claimed): when the partial-exit order placed on the touch of target_1
\* fails (place_exit returns None), that manage_exit call leaves the position's
\* quantity, stop_loss and target_1_hit unchanged.
C2_FailedPartialLeavesPosition ==
    [][ ( /\ obs'.op = "manage_exit"
          /\ obs'.placed # <<>>
          /\ obs'.placed[1].reason = PartialReason
          /\ obs'.placed[1].result = None )
        => /\ PositionOf(open_positions', UnitSymbol).quantity = PositionOf(open_positions, UnitSymbol).quantity
           /\ PositionOf(open_positions', UnitSymbol).stop_loss = PositionOf(open_positions, UnitSymbol).stop_loss
           /\ PositionOf(open_positions', UnitSymbol).target_1_hit = PositionOf(open_positions, UnitSymbol).target_1_hit
      ]_vars

\* C7: over any sequence of manage_exit and evaluate_exit calls on a position,
\* target_1_hit, once true, is never set back to false.
C7_Target1HitMonotone ==
    [][ \A s \in Symbols :
          ( /\ obs'.op \in ExitCalls
            /\ HasPosition(open_positions, s) /\ HasPosition(open_positions', s)
            /\ PositionOf(open_positions, s).target_1_hit )
          => PositionOf(open_positions', s).target_1_hit ]_vars

C7_Witness ==
    /\ obs.op = "evaluate_exit"
    /\ obs.hit_before
    /\ ~obs.ret
    /\ PositionOf(open_positions, UnitSymbol).target_1_hit

-----------------------------------------------------------------------------
(* Claims about DailyRiskState, checked under SpecRisk *)

\* C8: can_trade(symbol, max_total, max_per_stock) returns true exactly when
\* realized_pnl > -(capital * max_daily_loss_pct), total_trades < max_total and
\* the symbol's trade count < max_per_stock, and changes no field of the state;
\* so once realized_pnl <= -(capital * max_daily_loss_pct) it is false for
\* every symbol.
C8_CanTradePredicate ==
    [][ obs'.op = "can_trade" =>
          /\ risk' = risk
          /\ obs'.result <=>
               /\ risk.realized_pnl * 100 > -(capital * daily_max_loss_pct_x100)
               /\ risk.total_trades < obs'.max_total
               /\ (IF obs'.symbol \in DOMAIN risk.symbol_trade_count
                   THEN risk.symbol_trade_count[obs'.symbol] ELSE 0) < obs'.max_per_stock
      ]_vars

\* the loss limit alone blocks a symbol that has no trade, below the trade caps
C8_Witness ==
    /\ obs.op = "can_trade"
    /\ ~obs.result
    /\ risk.realized_pnl * 100 = -(capital * daily_max_loss_pct_x100)
    /\ risk.total_trades < obs.max_total
    /\ obs.symbol \notin DOMAIN risk.symbol_trade_count

-----------------------------------------------------------------------------
(* Claims about the owner of the positions, checked under SpecLive *)

\* the last order of a manage_exit call is a full exit (no qty) that failed
FailedFullExit(m) ==
    /\ m.placed # <<>>
    /\ m.placed[Len(m.placed)].qty = Missing
    /\ m.placed[Len(m.placed)].result = None

\* C1: when place_exit returns None for a full-exit decision, the position
\* stays in the owner's open-position set with its fields unmodified and no
\* exit PnL is registered in the DailyRiskState (so the exit is attempted again
\* on the next bar).
C1_FailedExitKeepsPosition ==
    [][ obs'.op = "_manage_positions" =>
          \A i \in DOMAIN obs'.managed :
             FailedFullExit(obs'.managed[i]) =>
               /\ HasPosition(open_positions', obs'.managed[i].symbol)
               /\ PositionOf(open_positions', obs'.managed[i].symbol) = obs'.managed[i].after
               /\ ~obs'.managed[i].registered
      ]_vars

-----------------------------------------------------------------------------
(* Claims about BacktestEngine, checked under SpecBacktest *)

RECURSIVE SeqSum(_)
SeqSum(q) == IF q = <<>> THEN 0 ELSE Head(q) + SeqSum(Tail(q))

\* C9: the backtest opens a position (and calls register_trade) only when
\* can_trade(symbol, ...) is true of the risk state immediately before; so
\* within a trading day no more than max_total_trades_per_day positions are
\* opened and no symbol is entered more than max_trades_per_stock_per_day times.
C9_AdmissionRespectsRisk ==
    /\ [](\A k \in DOMAIN data_map_symbols :
             obs.entered[k] <= max_trades_per_stock_per_day)
    /\ [](SeqSum(obs.entered) <= max_total_trades_per_day)
    /\ [][ obs'.op = "_scan_and_enter" =>
             \A i \in DOMAIN obs'.admitted :
                can_trade(obs'.admitted[i].before, obs'.admitted[i].symbol,
                          max_total_trades_per_day,
                          max_trades_per_stock_per_day).result ]_vars

\* a scan filled the daily cap, and a symbol traded and closed earlier that day
\* has no position
C9_Witness ==
    /\ obs.op = "_scan_and_enter"
    /\ obs.admitted # <<>>
    /\ risk.total_trades = max_total_trades_per_day
    /\ \E k \in DOMAIN data_map_symbols :
         /\ obs.entered[k] = max_trades_per_stock_per_day
         /\ ~HasPosition(open_positions, data_map_symbols[k])

\* C10: run() calls risk_state.reset() exactly once for each date of the
\* timeline, at the first timestamp of that date and before any exit
\* management, entry scan or force close of that date; after the reset
\* realized_pnl = 0, total_trades = 0 and the per-symbol counts are empty.
C10_ResetOncePerDate ==
    /\ [](\A d \in 1 .. MaxDays : obs.resets[d] = IF d \in obs.dates THEN 1 ELSE 0)
    /\ [](pc \in {"manage", "scan", "force"} =>
             obs.resets[now.day] = 1 /\ last_date = now.day)
    /\ [][ obs'.reset =>
             /\ risk'.realized_pnl = 0
             /\ risk'.total_trades = 0
             /\ risk'.symbol_trade_count = EmptyDict ]_vars

\* the first timestamp of a second date, after a day with an entry
C10_Witness ==
    /\ obs.op = "advance"
    /\ obs.reset
    /\ obs.dates = {1, 2}
    /\ open_positions # <<>>
    /\ risk = NewRiskState

-----------------------------------------------------------------------------
(* Claims about the time loop of BacktestEngine.run, checked under SpecBacktest *)

\* the price _force_close_all closes the i-th open position at
ForcePrice(i) ==
    IF obs'.closes[i] = Missing THEN open_positions[i].entry ELSE obs'.closes[i]

ForcePnl(i) ==
    (ForcePrice(i) - open_positions[i].entry) * Direction(open_positions[i].side)
        * open_positions[i].quantity

RECURSIVE ForcePnlSum(_)
ForcePnlSum(i) == IF i = 0 THEN 0 ELSE ForcePnlSum(i - 1) + ForcePnl(i)

\* C11: at a timestamp whose time of day is >= cfg.force_exit every open
\* position is closed at its bar's close, or at its entry price when the symbol
\* has no bar there, with one trade-log record and one register_exit each;
\* open_positions is empty afterwards, and neither exit management nor the
\* entry scan runs at that timestamp.
C11_ForceCloseAll ==
    /\ [][ pc = "force" =>
             /\ open_positions' = <<>>
             /\ Len(trades_history') = Len(trades_history) + Len(open_positions)
             /\ SubSeq(trades_history', 1, Len(trades_history)) = trades_history
             /\ \A i \in DOMAIN open_positions :
                  /\ trades_history'[Len(trades_history) + i].symbol = open_positions[i].symbol
                  /\ trades_history'[Len(trades_history) + i].exit = ForcePrice(i)
                  /\ trades_history'[Len(trades_history) + i].quantity = open_positions[i].quantity
                  /\ trades_history'[Len(trades_history) + i].pnl = ForcePnl(i)
                  /\ trades_history'[Len(trades_history) + i].reason = "force_square_off_1520"
                  /\ trades_history'[Len(trades_history) + i].time = now
             /\ risk'.realized_pnl = risk.realized_pnl + ForcePnlSum(Len(open_positions))
             /\ risk'.total_trades = risk.total_trades
             /\ risk'.symbol_trade_count = risk.symbol_trade_count
             /\ pc' = "next" ]_vars
    /\ [](now.tod >= force_exit =>
             pc = "force" \/ obs.op = "_force_close_all" \/ pc = "done")
    /\ [](pc \in {"manage", "scan"} => now.tod < force_exit)
    /\ [](obs.op \in {"_manage_positions", "_scan_and_enter"} => now.tod < force_exit)

\* two positions force-closed, the first without a bar, the second at a close
\* away from its entry
C11_Witness ==
    /\ obs.op = "_force_close_all"
    /\ Len(obs.closes) = 2
    /\ obs.closes[1] = Missing
    /\ obs.closes[2] # Missing
    /\ Len(trades_history) >= 2
    /\ trades_history[Len(trades_history)].pnl # 0
    /\ open_positions = <<>>

\* C12: at each timestamp _manage_positions runs before _scan_and_enter, so a
\* position opened at timestamp t is not exit-evaluated at t: every position
\* _manage_positions goes over was opened at a strictly earlier timestamp.
C12_ManageBeforeScan ==
    /\ [][ pc = "manage" =>
             \A i \in DOMAIN open_positions : Later(now, open_positions[i].opened_at) ]_vars
    /\ [][ obs'.op = "_scan_and_enter" =>
             obs.op = "_manage_positions" /\ now' = now ]_vars
    /\ [](\A i \in DOMAIN open_positions :
             open_positions[i].opened_at = now =>
                 (obs.op = "_scan_and_enter" /\ pc = "next") \/ pc = "done")

\* a position opened at an earlier timestamp is exit-evaluated and stopped out
C12_Witness ==
    /\ obs.op = "_manage_positions"
    /\ trades_history # <<>>
    /\ trades_history[Len(trades_history)].reason = "stop_loss_hit"
    /\ trades_history[Len(trades_history)].time = now
    /\ obs.bars = MaxBars

\* does the step open a position the engine did not hold
Enters ==
    \E i \in DOMAIN open_positions' :
        ~HasPosition(open_positions, open_positions'[i].symbol)

\* C13 (as claimed): no exit management and no entry before cfg.scan_start,
\* and the entry scan only at times of day before cfg.last_entry (and before
\* cfg.force_exit).
C13_ScanBeforeLastEntry ==
    /\ obs.op \in {"_manage_positions", "_scan_and_enter"} => now.tod >= scan_start
    /\ obs.op = "_scan_and_enter" => now.tod < last_entry /\ now.tod < force_exit

\* C13 (amended): no exit management and no entry before cfg.scan_start, and
\* the entry scan, the only step that opens positions, runs only at times of
\* day at or before cfg.last_entry (and before cfg.force_exit).
C13_ScanWindow ==
    /\ [](obs.op \in {"_manage_positions", "_scan_and_enter"} => now.tod >= scan_start)
    /\ [](pc \in {"manage", "scan", "force"} => now.tod >= scan_start)
    /\ [](obs.op = "_scan_and_enter" \/ pc = "scan" =>
             now.tod <= last_entry /\ now.tod < force_exit)
    /\ [][ Enters => /\ obs'.op = "_scan_and_enter"
                     /\ now.tod >= scan_start
                     /\ now.tod <= last_entry ]_vars

\* a position is opened by the scan of the timestamp at cfg.last_entry itself
C13_Witness ==
    /\ obs.op = "_scan_and_enter"
    /\ now.tod = last_entry
    /\ obs.admitted # <<>>
    /\ open_positions # <<>>
    /\ open_positions[Len(open_positions)].opened_at = now

\* the (score, relative_volume) keys compared as python compares tuples
KeyAtLeast(a, b) ==
    a.score > b.score \/ (a.score = b.score /\ a.relative_volume >= b.relative_volume)

SameKey(a, b) == a.score = b.score /\ a.relative_volume = b.relative_volume

AdmittedSymbols == {obs.admitted[i].symbol : i \in DOMAIN obs.admitted}

\* the i-th admission's place among the signals collected
CandidateOf(i) ==
    CHOOSE j \in DOMAIN obs.candidates : obs.candidates[j].symbol = obs.admitted[i].symbol

-----------------------------------------------------------------------------
(* Claims about the layers of ExitManager.manage_exit, checked under SpecExit *)

\* the position after the call, and the call's bar against the levels
Held == PositionOf(open_positions, UnitSymbol)

Touches(position, candle) ==
    IF position.side = "BUY"
    THEN candle.high >= position.target_1
    ELSE candle.low <= position.target_1

Breaches(side, stop, candle) ==
    IF side = "BUY" THEN candle.low <= stop ELSE candle.high >= stop

TrailCondition(side, candle) ==
    /\ candle.ema9 # Missing
    /\ IF side = "BUY" THEN candle.close < candle.ema9 ELSE candle.close > candle.ema9

TrendConfirmed(side, candle) ==
    /\ candle.vwap # Missing /\ candle.ema9 # Missing /\ candle.ema20 # Missing
    /\ IF side = "BUY"
       THEN candle.close > candle.vwap /\ candle.ema9 > candle.ema20
       ELSE candle.close < candle.vwap /\ candle.ema9 < candle.ema20

PlacedReasons == {obs.placed[i].reason : i \in DOMAIN obs.placed}

FirstTouch == ~obs.before.target_1_hit /\ Touches(obs.before, obs.candle)

\* C15: manage_exit called at or after cfg.force_exit places exactly one exit
\* order, for the full quantity and with a force_square_off reason, returns
\* True, executes no partial exit and leaves quantity, stop_loss and
\* target_1_hit as they were, whatever the bar.
C15_ForceExitIsTerminal ==
    (obs.op = "manage_exit" /\ obs.tod >= force_exit) =>
        /\ obs.ret /\ ~obs.raised
        /\ Len(obs.placed) = 1
        /\ obs.placed[1].reason = "force_square_off_1520"
        /\ obs.placed[1].qty = Missing
        /\ obs.placed[1].quantity = obs.before.quantity
        /\ Held.quantity = obs.before.quantity
        /\ Held.stop_loss = obs.before.stop_loss
        /\ Held.target_1_hit = obs.before.target_1_hit

\* at the cutoff, on a bar that touches target_1 of a position not yet hit and
\* large enough to be halved
C15_Witness ==
    /\ obs.op = "manage_exit"
    /\ obs.tod >= force_exit
    /\ FirstTouch
    /\ obs.before.quantity >= 2
    /\ obs.ret

C17_FirstTouchKeepsPositionOpen ==
    ( /\ obs.op = "manage_exit"
      /\ obs.tod < eod_checkpoint
      /\ ~TrailCondition(obs.before.side, obs.candle)
      /\ FirstTouch
      /\ ~Breaches(obs.before.side, obs.before.stop_loss, obs.candle) )
    => /\ ~obs.ret
       /\ Held.target_1_hit
       /\ Held.stop_loss = Held.entry

\* C18: before the force-exit cutoff the stop-loss check runs after the
\* target_1 step and against the stop_loss that step left: when the bar
\* breaches it the call places a full exit with reason stop_loss_hit and
\* returns True, also on the bar of the first touch of target_1; and no
\* stop_loss_hit exit is placed on a bar that does not breach it.
C18_StopLossAfterTarget1 ==
    (obs.op = "manage_exit" /\ obs.tod < force_exit) =>
        IF Breaches(obs.before.side,
                    IF FirstTouch THEN obs.before.entry ELSE obs.before.stop_loss,
                    obs.candle)
        THEN /\ obs.ret
             /\ obs.placed # <<>>
             /\ obs.placed[Len(obs.placed)].reason = "stop_loss_hit"
             /\ obs.placed[Len(obs.placed)].qty = Missing
             /\ \A i \in DOMAIN obs.placed :
                  obs.placed[i].reason = "stop_loss_hit" => i = Len(obs.placed)
        ELSE "stop_loss_hit" \notin PlacedReasons

\* the bar of the first touch reaches back to the entry without reaching the
\* stop the position came with
C18_Witness ==
    /\ obs.op = "manage_exit"
    /\ obs.tod < force_exit
    /\ FirstTouch
    /\ ~Breaches(obs.before.side, obs.before.stop_loss, obs.candle)
    /\ obs.ret
    /\ "stop_loss_hit" \in PlacedReasons

\* C19: the trailing exit (full close, reason ema_9_trailing_stop) is placed
\* only for a position whose target_1_hit is true when the trailing layer is
\* reached and whose bar closes below a present ema9 (long) or above it
\* (short); never for a position with target_1_hit false, never on an absent
\* ema9.
C19_TrailingOnlyAfterTarget1 ==
    (obs.op = "manage_exit" /\ "ema_9_trailing_stop" \in PlacedReasons) =>
        /\ obs.before.target_1_hit \/ FirstTouch
        /\ Held.target_1_hit
        /\ obs.candle.ema9 # Missing
        /\ TrailCondition(obs.before.side, obs.candle)
        /\ obs.ret
        /\ obs.placed[Len(obs.placed)].reason = "ema_9_trailing_stop"
        /\ obs.placed[Len(obs.placed)].qty = Missing
        /\ obs.tod < force_exit

\* a runner closed by the trailing layer on the bar that made it a runner
C19_Witness ==
    /\ obs.op = "manage_exit"
    /\ "ema_9_trailing_stop" \in PlacedReasons
    /\ ~obs.before.target_1_hit
    /\ "partial_profit_pivot_hit" \in PlacedReasons

TouchesTarget2(position, candle) ==
    /\ position.target_2 # Missing
    /\ IF position.side = "BUY"
       THEN candle.high >= position.target_2
       ELSE candle.low <= position.target_2

\* C22: evaluate_exit returns (True, force_square_off_1520) at or after the
\* force-exit time; otherwise (True, "stop_loss") when the bar breaches the
\* stop, tested before any target and leaving the position as it was; otherwise
\* the first touch of target_1 sets target_1_hit and moves stop_loss to entry,
\* and it returns (True, "target_2") when target_1_hit then holds and the bar
\* touches target_2, and (False, "hold") in every other case.
C22_EvaluateExit ==
    obs.op = "evaluate_exit" =>
        IF obs.tod >= force_exit
        THEN obs.ret /\ obs.reason = "force_square_off_1520" /\ Held = obs.before
        ELSE IF Breaches(obs.before.side, obs.before.stop_loss, obs.candle)
        THEN obs.ret /\ obs.reason = "stop_loss" /\ Held = obs.before
        ELSE /\ Held.target_1_hit = (obs.before.target_1_hit \/ Touches(obs.before, obs.candle))
             /\ Held.stop_loss = IF FirstTouch THEN obs.before.entry ELSE obs.before.stop_loss
             /\ Held.quantity = obs.before.quantity
             /\ IF Held.target_1_hit /\ TouchesTarget2(obs.before, obs.candle)
                THEN obs.ret /\ obs.reason = "target_2"
                ELSE ~obs.ret /\ obs.reason = "hold"

\* one bar takes a position through target_1 and target_2
C22_Witness ==
    /\ obs.op = "evaluate_exit"
    /\ ~obs.before.target_1_hit
    /\ obs.ret
    /\ obs.reason = "target_2"
    /\ Held.target_1_hit
    /\ Held.stop_loss = Held.entry

-----------------------------------------------------------------------------
(* Claims about position_size *)

Least(a, b) == IF a <= b THEN a ELSE b

Floor(a, b) == CHOOSE q \in -(a + 1) .. (a + 1) : q * b <= a /\ a < (q + 1) * b

StopDistance(a) ==
    IF a.entry >= a.stop_loss THEN a.entry - a.stop_loss ELSE a.stop_loss - a.entry

SizeCall == obs.op = "position_size"

\* C23: for a non-zero stop distance and entry > 0 position_size returns
\* max(0, min(floor(capital * risk_pct / |entry - stop|),
\* floor(max_trade_capital / entry))); the scenario (100000, 5000, 0.01, 100, 99)
\* gives 50.
C23_PositionSizeFormula ==
    (SizeCall /\ StopDistance(obs.args) # 0 /\ obs.args.entry > 0) =>
        /\ ~obs.raised
        /\ LET a == obs.args
               claimed == Least(Floor(a.capital * a.risk_pct_x100, 100 * StopDistance(a)),
                                Floor(a.max_trade_capital, a.entry))
           IN  obs.result = IF claimed >= 0 THEN claimed ELSE 0
        /\ obs.args = SizeScenario => obs.result = 50

\* the scenario: a risk quantity of 1000 capped by a capital quantity of 50
C23_Witness ==
    /\ SizeCall
    /\ obs.args = SizeScenario
    /\ ~obs.raised
    /\ obs.result = 50

\* C24: position_size returns 0, without raising, whenever the stop distance is
\* zero or entry <= 0, entry = 0 with a non-zero stop distance included
C24_ZeroWithoutRaising ==
    (SizeCall /\ (StopDistance(obs.args) = 0 \/ obs.args.entry <= 0)) =>
        (~obs.raised /\ obs.result = 0)

SameButCapital(a, b) ==
    /\ a.max_trade_capital = b.max_trade_capital
    /\ a.risk_pct_x100 = b.risk_pct_x100
    /\ a.entry = b.entry
    /\ a.stop_loss = b.stop_loss

SameButStop(a, b) ==
    /\ a.capital = b.capital
    /\ a.max_trade_capital = b.max_trade_capital
    /\ a.risk_pct_x100 = b.risk_pct_x100
    /\ a.entry = b.entry

\* two calls one after the other, both with entry > 0
TwoSizeCalls ==
    /\ SizeCall
    /\ obs'.op = "position_size"
    /\ obs.args.entry > 0
    /\ obs'.args.entry > 0

MonotoneInCapital ==
    (SameButCapital(obs.args, obs'.args) /\ obs.args.capital <= obs'.args.capital)
        => obs.result <= obs'.result

\* C25 as stated: position_size is non-decreasing in capital and non-increasing
\* in the stop distance (entry > 0, other arguments fixed), and never negative
C25_Monotone ==
    [][TwoSizeCalls =>
         /\ obs'.result >= 0
         /\ MonotoneInCapital
         /\ (SameButStop(obs.args, obs'.args)
               /\ StopDistance(obs.args) <= StopDistance(obs'.args))
              => obs.result >= obs'.result]_vars

\* C25: position_size is non-decreasing in capital, non-increasing in the stop
\* distance over the non-zero stop distances (entry > 0, other arguments fixed),
\* and never negative; a zero stop distance gives 0.
C25_MonotoneNonZeroDistance ==
    [][TwoSizeCalls =>
         /\ obs'.result >= 0
         /\ MonotoneInCapital
         /\ (SameButStop(obs.args, obs'.args)
               /\ 0 < StopDistance(obs.args)
               /\ StopDistance(obs.args) <= StopDistance(obs'.args))
              => obs.result >= obs'.result
         /\ StopDistance(obs'.args) = 0 => obs'.result = 0]_vars

\* a call whose quantity is set by the risk amount and the stop distance, below
\* what the capital cap allows
C25_Witness ==
    /\ SizeCall
    /\ obs.args.entry > 0
    /\ StopDistance(obs.args) > 1
    /\ ~obs.raised
    /\ obs.result > 0
    /\ obs.result < Floor(obs.args.max_trade_capital, obs.args.entry)

-----------------------------------------------------------------------------
(* Claims about the result of BacktestEngine.run *)

LogIndexes(P(_)) == {i \in DOMAIN trades_history : P(trades_history[i])}

\* C26: the BacktestResult returned by run() is derived from the trade log alone:
\* total_trades is the number of records and equals wins + losses, wins counts
\* the records with pnl > 0, losses those with pnl <= 0, total_pnl is the sum of
\* the records' pnl and win_rate is wins / total_trades, 0 for an empty log.
C26_ResultFromTradeLog ==
    obs.op = "run" =>
        LET res == obs.result
            won == Cardinality(LogIndexes(LAMBDA t : t.pnl > 0))
            lost == Cardinality(LogIndexes(LAMBDA t : t.pnl <= 0))
        IN  /\ res.total_trades = Len(trades_history)
            /\ res.total_trades = res.wins + res.losses
            /\ res.wins = won
            /\ res.losses = lost
            /\ res.total_pnl = SeqSum([i \in DOMAIN trades_history |-> trades_history[i].pnl])
            /\ res.trades = trades_history
            /\ IF trades_history = <<>>
               THEN res.win_rate.num = 0
               ELSE res.win_rate.num * Len(trades_history) = won * res.win_rate.den

\* a run that returns with a winning trade and one closed at its entry price,
\* counted as a loss, in the log
C26_Witness ==
    /\ obs.op = "run"
    /\ obs.result.total_trades = 2
    /\ obs.result.wins = 1
    /\ obs.result.losses = 1
    /\ obs.result.total_pnl > 0
    /\ \E i \in DOMAIN trades_history : trades_history[i].pnl = 0

-----------------------------------------------------------------------------
(* Claims about the signals that are admitted *)

C28_MinimumScore ==
    (obs.op = "StrategyEngine.evaluate" /\ obs.result # NoSignal) =>
        obs.result.score >= min_sss_score

-----------------------------------------------------------------------------
(* Claims about SignalScorer.calculate_score *)

ScoreCall == obs.op = "calculate_score"

ScoreLevels(c) == {c.vwap, c.pp, c.r1, c.s1}

Straddles(c, level) == c.low <= level /\ level <= c.high

\* the average range the score compares with: that of the previous row, else
\* that of the row itself, else 0
AverageRange ==
    IF obs.prev_candle.avg_range_20 # Absent THEN obs.prev_candle.avg_range_20
    ELSE IF obs.candle.avg_range_20 # Absent THEN obs.candle.avg_range_20
    ELSE 0

AverageVolume ==
    IF obs.candle.avg_vol_20 # Absent THEN obs.candle.avg_vol_20 ELSE 0

Aligned(n) ==
    \/ n.close > n.vwap /\ n.ema9 > n.ema20 /\ n.rsi > 55
    \/ n.close < n.vwap /\ n.ema9 < n.ema20 /\ n.rsi < 45

\* the rejection test of the scorer: one-sided in the level
Rejected(side, c) ==
    IF side = "SELL"
    THEN c.close < c.ema9 /\ \E lvl \in ScoreLevels(c) : c.high >= lvl
    ELSE c.close > c.ema9 /\ \E lvl \in ScoreLevels(c) : c.low <= lvl

\* the six components, as conditions
ScoreComponents ==
    << Straddles(obs.candle, obs.candle.vwap),
       \E pv \in {obs.candle.pp, obs.candle.r1, obs.candle.s1} : Straddles(obs.candle, pv),
       Rejected(obs.side, obs.candle),
       AverageRange # NaN /\ 10 * (obs.candle.high - obs.candle.low) >= 11 * AverageRange,
       AverageVolume # NaN /\ 10 * obs.candle.volume >= 13 * AverageVolume,
       obs.nifty_candle # NoIndexBar /\ Aligned(obs.nifty_candle) >>

FarAndQuiet ==
    /\ ScoreCall
    /\ \A lvl \in ScoreLevels(obs.candle) : ~Straddles(obs.candle, lvl)
    /\ AverageRange # NaN
    /\ 10 * (obs.candle.high - obs.candle.low) < 11 * AverageRange
    /\ AverageVolume # NaN
    /\ 10 * obs.candle.volume < 13 * AverageVolume

-----------------------------------------------------------------------------
(* Claims about the index regime *)

\* C31: analyze_index_trend returns NEUTRAL for fewer than 50 rows; with at
\* least 50 rows it returns BULLISH exactly when the last close > ema50 and
\* ema20 > ema50, BEARISH exactly when the last close < ema50 and ema20 < ema50,
\* and NEUTRAL otherwise.
C31_IndexTrend ==
    obs.op = "analyze_index_trend" =>
        /\ obs.result \in {"BULLISH", "BEARISH", "NEUTRAL"}
        /\ obs.rows < 50 => obs.result = "NEUTRAL"
        /\ obs.rows >= 50 =>
             /\ obs.result = "BULLISH"
                  <=> (obs.last.close > obs.last.ema50 /\ obs.last.ema20 > obs.last.ema50)
             /\ obs.result = "BEARISH"
                  <=> (obs.last.close < obs.last.ema50 /\ obs.last.ema20 < obs.last.ema50)

\* a frame of exactly 50 rows whose close is below ema50 while ema20 is above
\* it: NEUTRAL although the warm-up is complete
C31_Witness ==
    /\ obs.op = "analyze_index_trend"
    /\ obs.rows = 50
    /\ obs.last.close < obs.last.ema50
    /\ obs.last.ema20 > obs.last.ema50
    /\ obs.result = "NEUTRAL"

\* C39: the index regime _scan_and_enter computes is NEUTRAL at every timestamp
\* and for every index series, since the view handed to analyze_index_trend
\* holds 21 rows.
C39_BacktestRegimeIsNeutral ==
    (obs.op = "_scan_and_enter" /\ obs.index_state # NoArg)
        => obs.index_state = "NEUTRAL"

\* a scan that computed the regime and opened two positions
C39_Witness ==
    /\ obs.op = "_scan_and_enter"
    /\ obs.index_state = "NEUTRAL"
    /\ Len(obs.admitted) = 2

-----------------------------------------------------------------------------
(* Claims about the positions and the trade log of a backtest run *)

\* the trade-log records the step appends
NewRecords == Len(trades_history) + 1 .. Len(trades_history')

\* C32: after every _manage_positions step no position with quantity 0 remains
\* in open_positions; a position leaves open_positions only in the step that
\* recorded its full exit in the trade log; quantity is never negative.
C32_ClosedPositionsEvicted ==
    /\ [](\A i \in DOMAIN open_positions : open_positions[i].quantity >= 0)
    /\ [](obs.op = "_manage_positions" =>
             \A i \in DOMAIN open_positions : open_positions[i].quantity > 0)
    /\ [][ \A i \in DOMAIN open_positions :
             ~HasPosition(open_positions', open_positions[i].symbol) =>
                 /\ pc \in {"manage", "force"}
                 /\ \E k \in NewRecords :
                      /\ trades_history'[k].symbol = open_positions[i].symbol
                      /\ trades_history'[k].reason # "partial_profit_pivot_hit"
                      /\ trades_history'[k].time = now ]_vars

\* one exit-management step that closes a position and leaves another, half
\* taken off at target_1, open
C32_Witness ==
    /\ obs.op = "_manage_positions"
    /\ Len(open_positions) = 1
    /\ open_positions[1].target_1_hit
    /\ open_positions[1].quantity > 0
    /\ trades_history # <<>>
    /\ trades_history[Len(trades_history)].time = now
    /\ trades_history[Len(trades_history)].symbol # open_positions[1].symbol

\* the trade-log records of the date the risk state was last reset for
OfLastDate(record) == record.time.day = last_date

RECURSIVE SumSeq(_)
SumSeq(numbers) == IF numbers = <<>> THEN 0 ELSE Head(numbers) + SumSeq(Tail(numbers))

\* the shares the trade log accounts for, and the shares entered, of a symbol
LoggedShares(symbol) ==
    SumSeq([k \in DOMAIN trades_history |->
               IF trades_history[k].symbol = symbol THEN trades_history[k].quantity ELSE 0])

EnteredShares(symbol) ==
    SumSeq([k \in DOMAIN orders |->
               IF orders[k].type = "ENTRY" /\ orders[k].symbol = symbol
               THEN orders[k].qty ELSE 0])

\* C36: every exit order of the exit manager is logged, so the records of a
\* closed position account for every share it was opened with
C36_SharesConserved ==
    \A k \in DOMAIN data_map_symbols :
        ~HasPosition(open_positions, data_map_symbols[k]) =>
            LoggedShares(data_map_symbols[k]) = EnteredShares(data_map_symbols[k])

\* C37: no position is open at a timestamp of a date after the one it was
\* opened on, and none is open when run() has returned
C37_NoPositionOutlivesItsDay ==
    /\ \A i \in DOMAIN open_positions : open_positions[i].opened_at.day = now.day
    /\ pc = "done" => open_positions = <<>>

-----------------------------------------------------------------------------
(* Claims about the daily loss limit, checked under SpecRisk *)

\* realized_pnl <= -(capital * daily_max_loss_pct), in hundredths
Locked(r) == r.realized_pnl * 100 <= -(capital * daily_max_loss_pct_x100)

\* C38 as stated: once the limit is reached, the state stays locked and
\* can_trade stays false until the next reset, whatever exits are registered
C38_LockoutIsLatch ==
    [][ (Locked(risk) /\ obs'.op # "reset") =>
            /\ Locked(risk')
            /\ obs'.op = "can_trade" => ~obs'.result ]_vars

\* C38, amended: the lockout follows the current value of realized_pnl.
\* can_trade is false in a locked state; register_exit adds its pnl, gain or
\* loss; the state becomes locked only by the exit of a loss and is unlocked
\* by a reset or by the exit of a gain that lifts realized_pnl over the limit
C38_LockoutFollowsRealizedPnl ==
    /\ [][ (obs'.op = "can_trade" /\ Locked(risk)) => ~obs'.result ]_vars
    /\ [][ obs'.op = "register_exit" =>
               risk'.realized_pnl = risk.realized_pnl + obs'.pnl ]_vars
    /\ [][ (~Locked(risk) /\ Locked(risk')) =>
               obs'.op = "register_exit" /\ obs'.pnl < 0 ]_vars
    /\ [][ (Locked(risk) /\ ~Locked(risk')) =>
               \/ obs'.op = "reset"
               \/ obs'.op = "register_exit" /\ obs'.pnl > 0 ]_vars

\* the exit of a gain has just unlocked a locked state, with no reset
C38_Witness ==
    /\ obs.op = "register_exit"
    /\ obs.pnl > 0
    /\ Locked([risk EXCEPT !.realized_pnl = @ - obs.pnl])
    /\ ~Locked(risk)
    /\ risk.realized_pnl < 0

-----------------------------------------------------------------------------
(* Claims about the symbols of the positions of a backtest run *)

Untradable(symbol) == symbol = "NIFTY 50" \/ symbol \in excluded_symbols

\* C35: open_positions holds at most one position per symbol and none for the
\* index or an excluded symbol; a scan collects no signal for such a symbol
\* nor for a symbol that has an open position
C35_OnePositionPerTradableSymbol ==
    /\ [](\A i, j \in DOMAIN open_positions :
             open_positions[i].symbol = open_positions[j].symbol => i = j)
    /\ [](\A i \in DOMAIN open_positions : ~Untradable(open_positions[i].symbol))
    /\ [][ obs'.op = "_scan_and_enter" =>
               \A i \in DOMAIN obs'.candidates :
                   /\ ~HasPosition(open_positions, obs'.candidates[i].symbol)
                   /\ ~Untradable(obs'.candidates[i].symbol) ]_vars

\* a scan in which the strategy had a signal for the index, for an excluded
\* symbol and for a symbol with a position opened earlier, and which opened a
\* position for another symbol
C35_Witness ==
    /\ obs.op = "_scan_and_enter"
    /\ {"NIFTY 50", "HDFCBANK"} \subseteq obs.signalled
    /\ \E i, j \in DOMAIN open_positions :
         /\ open_positions[i].opened_at # now
         /\ open_positions[i].symbol \in obs.signalled
         /\ open_positions[j].opened_at = now
    /\ Len(obs.candidates) = 1

-----------------------------------------------------------------------------
(* Claims about the stop of a runner, checked under SpecExit *)

\* C33: a position whose target_1_hit is false gets it set only together with
\* stop_loss = entry, by manage_exit and by evaluate_exit alike; once it is set
\* it stays set and the stop stays where it is.  For a position opened with
\* target_1_hit false this makes target_1_hit => stop_loss = entry hold in
\* every state.
C33_BreakevenStopWithTarget1 ==
    [][ (obs'.op \in UnitCalls /\ HasPosition(open_positions', UnitSymbol)) =>
          LET before == PositionOf(open_positions, UnitSymbol)
              after == PositionOf(open_positions', UnitSymbol)
          IN  /\ after.entry = before.entry
              /\ (~before.target_1_hit /\ after.target_1_hit) =>
                     after.stop_loss = after.entry
              /\ ~after.target_1_hit => after.stop_loss = before.stop_loss
              /\ before.target_1_hit =>
                     after.target_1_hit /\ after.stop_loss = before.stop_loss ]_vars

\* evaluate_exit has just set target_1_hit on a position that came with its
\* stop away from the entry, and holds it
C33_Witness ==
    /\ obs.op = "evaluate_exit"
    /\ ~obs.before.target_1_hit
    /\ obs.before.stop_loss # obs.before.entry
    /\ ~obs.ret
    /\ PositionOf(open_positions, UnitSymbol).target_1_hit
    /\ PositionOf(open_positions, UnitSymbol).stop_loss = obs.before.entry

-----------------------------------------------------------------------------
(* Claims about the entries of the live bot, checked under SpecLive *)

\* a scan in the entry window, below the daily cap, in a regime that is not
\* NEUTRAL, with a symbol that has no position, passes can_trade and whose
\* fetch returns a non-empty frame on which the strategy has a signal
ScanHasEligibleSignal ==
    /\ obs'.op = "_scan_and_trade"
    /\ now'.tod <= last_entry
    /\ risk.total_trades < max_total_trades_per_day
    /\ obs'.regime # "NEUTRAL"
    /\ \E symbol \in obs'.signals :
         /\ ~HasPosition(open_positions, symbol)
         /\ can_trade(risk, symbol, max_total_trades_per_day,
                      max_trades_per_stock_per_day).result

\* C40: in such a scan the signal becomes a candidate, from which place_entry
\* can be reached
C40_SignalBecomesCandidate ==
    [][ ScanHasEligibleSignal => obs'.potential_signals # <<>> ]_vars

=============================================================================
